---- MODULE Spec2Model ----
(***************************************************************************)
(* A model of the squirrel storage engine (mtrqq/squirrel): the binary     *)
(* codec, the slot allocator with its free list, the row page, the buffer  *)
(* page, the clock page pool, the pager, the metadata page and the table   *)
(* layer.  Buffers are sequences of bytes (0..255) and every structure is  *)
(* laid out in them byte for byte as the Go code lays it out.  The page    *)
(* size and the pool capacity are scaled down; everything else keeps the   *)
(* values of the source.                                                   *)
(*                                                                         *)
(* Go slices are modelled as a buffer plus a zero-based offset.  A slice   *)
(* expression that Go would reject at run time (bounds out of range) is    *)
(* the outcome "panic" of the operation.                                   *)
(***************************************************************************)
EXTENDS Integers, Sequences, FiniteSets, TLC

(***************************************************************************)
(* Bounds of the model.                                                    *)
(***************************************************************************)
\* Size of a page block in bytes (4096 in src/pkg/page/buffered.go:13).
pageSize == 128
\* Number of frames of the clock page pool (16 in NewPager).
PoolCapacity == 2
\* Slot headers an allocator run may create.
MaxSlots == 3
\* Page ids the callers ask for run from 0 to MaxPageId.
MaxPageId == 2
\* Pins a caller stacks on one frame.
MaxPins == 1
\* Rows inserted into the database.
MaxInserts == 3
\* Threads that call into one page at the same time.
Threads == 3

(***************************************************************************)
(* Program constants.                                                      *)
(***************************************************************************)
Int64ByteSize == 8
Int32ByteSize == 4
Int16ByteSize == 2
Int8ByteSize == 1
MaxUint16 == 65535
pageVersion == 1
metadataPageId == 0
PageTypeRow == 1
PageTypeMetadata == 2
slotStatusFree == 0
slotStatusAllocated == 1
ItemTypeInteger == 1
ItemTypeString == 2
ItemTypeBytes == 3
maxTableNameLength == 64
maxColumnNameLength == 64

pageIdSize == Int32ByteSize
pageVersionSize == Int8ByteSize
pageTypeSize == Int8ByteSize
pageIdOffset == 0
pageVersionOffset == pageIdOffset + pageIdSize
pageTypeOffset == pageVersionOffset + pageVersionSize
pageHeaderSize == pageTypeOffset + pageTypeSize
pageDataSize == pageSize - pageHeaderSize
VarCharHeaderSize == Int32ByteSize
allocatorHeaderSize == Int16ByteSize
allocatorSlotHeaderSize == Int32ByteSize * 2 + Int8ByteSize
slotsCountOffset == 0

\* A nil pointer.
NIL == 0 - 1

(***************************************************************************)
(* Binary codec (pkg/raw).  Integers are big-endian.  The model keeps      *)
(* every encoded value in 0 .. 2^31-1.                                     *)
(***************************************************************************)
\* A zeroed block, and n zero bytes.
ZeroBlock == [i \in 1..(pageSize + 1) |-> 0]
Zeros(n) == SubSeq(ZeroBlock, 1, n)

Pow256(e) == CASE e = 0 -> 1 [] e = 1 -> 256 [] e = 2 -> 65536 [] OTHER -> 16777216

\* binary.Encode of a w-byte integer, big-endian.
BigEndian(v, w) ==
  LET low == <<(v \div Pow256(3)) % 256, (v \div Pow256(2)) % 256,
               (v \div Pow256(1)) % 256, v % 256>>
  IN IF w <= 4 THEN SubSeq(low, 5 - w, 4) ELSE Zeros(w - 4) \o low

RECURSIVE BEValue(_)
\* binary.Decode of a big-endian integer.
BEValue(b) ==
  IF Len(b) = 0 THEN 0 ELSE BEValue(SubSeq(b, 1, Len(b) - 1)) * 256 + b[Len(b)]

\* n bytes of value b.
Fill(n, b) == [i \in 1..n |-> b]

\* copy(buf[off:], bytes) for a copy that fits.
WriteAt(buf, off, bytes) ==
  SubSeq(buf, 1, off) \o bytes \o SubSeq(buf, off + Len(bytes) + 1, Len(buf))

\* buf[off : off+n]
Slice(buf, off, n) == SubSeq(buf, off + 1, off + n)

\* raw.PutInt into buf[off:]: the buffer after the call, the bytes written, ok.
PutInt(buf, off, v, w) ==
  IF Len(buf) - off < w
    THEN [buf |-> buf, n |-> 0, ok |-> FALSE]
    ELSE [buf |-> WriteAt(buf, off, BigEndian(v, w)), n |-> w, ok |-> TRUE]

\* raw.ParseInt from buf[off:]: the value, the bytes read, ok.
ParseInt(buf, off, w) ==
  IF Len(buf) - off < w
    THEN [v |-> 0, n |-> 0, ok |-> FALSE]
    ELSE [v |-> BEValue(Slice(buf, off, w)), n |-> w, ok |-> TRUE]

(***************************************************************************)
(* Slot headers (pkg/allocator).  In a definition, a local operator takes  *)
(* the result of the call made before it and does what the code does       *)
(* next; the IN part makes the first call.                                 *)
(***************************************************************************)
NoHeader == [dataOffset |-> 0, size |-> 0, status |-> slotStatusFree]

\* slotHeader.ParseBinary on buf[off:].
slotHeaderParseBinary(buf, off) ==
  LET parsed(r1, r2, r3) ==
        IF ~r1.ok \/ ~r2.ok \/ ~r3.ok
          THEN [h |-> NoHeader, n |-> 0, ok |-> FALSE]
          ELSE [h |-> [dataOffset |-> r1.v, size |-> r2.v, status |-> r3.v],
                n |-> r1.n + r2.n + r3.n, ok |-> TRUE]
      thenStatus(r1, r2) ==
        parsed(r1, r2, ParseInt(buf, off + r1.n + r2.n, Int8ByteSize))
      thenSize(r1) == thenStatus(r1, ParseInt(buf, off + r1.n, Int32ByteSize))
  IN thenSize(ParseInt(buf, off, Int32ByteSize))

\* slotHeader.PutBinary on buf[off:]: a field that does not fit stops the
\* write and leaves the fields before it written.
slotHeaderPutBinary(buf, off, h) ==
  LET put(r1, r2, r3) ==
        IF ~r1.ok THEN [buf |-> buf, n |-> 0, ok |-> FALSE]
        ELSE IF ~r2.ok THEN [buf |-> r1.buf, n |-> r1.n, ok |-> FALSE]
        ELSE IF ~r3.ok THEN [buf |-> r2.buf, n |-> r1.n + r2.n, ok |-> FALSE]
        ELSE [buf |-> r3.buf, n |-> r1.n + r2.n + r3.n, ok |-> TRUE]
      thenStatus(r1, r2) ==
        put(r1, r2, PutInt(r2.buf, off + r1.n + r2.n, h.status, Int8ByteSize))
      thenSize(r1) == thenStatus(r1, PutInt(r1.buf, off + r1.n, h.size, Int32ByteSize))
  IN thenSize(PutInt(buf, off, h.dataOffset, Int32ByteSize))

(***************************************************************************)
(* The free list (pkg/allocator).  A freeHeaderRef is named by the slot    *)
(* index it was created for; node holds the refs on the heap, index the    *)
(* keys of the map.  Every method has a value receiver: it works on a copy *)
(* f of the struct, so what it assigns to f.head is lost when it returns,  *)
(* while the map and the refs are shared with the caller.                  *)
(***************************************************************************)
newFreeList == [head |-> NIL, index |-> {}, node |-> <<>>]

RECURSIVE freeListScan(_, _, _)
freeListScan(f, current, minCapacity) ==
  IF current = NIL THEN [index |-> 0, found |-> FALSE]
  ELSE IF f.node[current].capacity >= minCapacity
    THEN [index |-> current, found |-> TRUE]
  ELSE freeListScan(f, f.node[current].next, minCapacity)

\* freeList.HeaderWithCapacity
HeaderWithCapacity(f, minCapacity) == freeListScan(f, f.head, minCapacity)

RECURSIVE freeListVisit(_, _)
\* freeList.Visit: the refs in list order.
freeListVisit(f, current) ==
  IF current = NIL THEN <<>>
  ELSE <<[index |-> current, capacity |-> f.node[current].capacity]>>
         \o freeListVisit(f, f.node[current].next)

\* A Go map after m[i] = ref, and after delete(m, k).
SetNode(node, i, ref) ==
  [j \in (DOMAIN node) \cup {i} |-> IF j = i THEN ref ELSE node[j]]

Without(f, k) == [j \in (DOMAIN f) \ {k} |-> f[j]]

\* freeList.MarkHeaderUsed: the receiver copy after the call, and the result.
MarkHeaderUsed(f, index) ==
  LET unlink(ref) ==
        LET n1 == IF ref.prev # NIL
                    THEN [f.node EXCEPT ![ref.prev].next = ref.next] ELSE f.node
            n2 == IF ref.next # NIL
                    THEN [n1 EXCEPT ![ref.next].prev = ref.prev] ELSE n1
        IN [f |-> [head |-> IF f.head = index THEN ref.next ELSE f.head,
                   index |-> f.index \ {index},
                   node |-> [j \in (DOMAIN n2) \ {index} |-> n2[j]]],
            removed |-> TRUE]
  IN IF index \notin f.index THEN [f |-> f, removed |-> FALSE]
     ELSE unlink(f.node[index])

RECURSIVE freeListInsert(_, _, _, _, _)
\* The insertion loop of AddHeader: walk from current, prev the ref before it.
freeListInsert(f, ref, current, prev, capacity) ==
  IF current = NIL
    THEN [f EXCEPT !.node[prev].next = ref]
  ELSE IF f.node[current].capacity >= capacity
    THEN LET cprev == f.node[current].prev
             n1 == [f.node EXCEPT ![ref].next = current, ![ref].prev = cprev]
             n2 == IF cprev # NIL THEN [n1 EXCEPT ![cprev].next = ref] ELSE n1
         IN [f EXCEPT !.node = [n2 EXCEPT ![current].prev = ref]]
  ELSE freeListInsert(f, ref, f.node[current].next, current, capacity)

\* freeList.AddHeader: the receiver copy after the call, and the result.
AddHeader(f, index, capacity) ==
  LET link(f1) ==
        IF f1.head = NIL
          THEN [f |-> [f1 EXCEPT !.head = index], added |-> TRUE]
        ELSE IF f1.node[f1.head].capacity >= capacity
          THEN [f |-> [head |-> index, index |-> f1.index,
                       node |-> [f1.node EXCEPT ![index].next = f1.head,
                                                ![f1.head].prev = index]],
                added |-> TRUE]
        ELSE [f |-> freeListInsert(f1, index, f1.head, NIL, capacity),
              added |-> TRUE]
  IN IF index \in f.index THEN [f |-> f, added |-> FALSE]
     ELSE link([f EXCEPT !.index = f.index \cup {index},
                         !.node = SetNode(f.node, index,
                                    [next |-> NIL, prev |-> NIL,
                                     capacity |-> capacity])])

\* What the field would hold if the methods had pointer receivers: the list
\* the method left.
AfterPointerReceiver(own, g) == g

\* What the caller's freeList field holds after a method ran on the copy g:
\* its own head, and the shared map and refs.
AfterValueReceiver(own, g) ==
  [head |-> own.head, index |-> g.index, node |-> g.node]

(***************************************************************************)
(* The slot allocator (pkg/allocator).  An allocator a is the struct       *)
(* [buffer, slotsCount, freeList]; an operation yields the allocator after *)
(* the call and its outcome res: "ok", "err" (an error value), "none"      *)
(* (noFreeSlotsErr) or "panic".                                            *)
(***************************************************************************)
\* SlotAllocator.SlotsAllocated: a count that cannot be read is 0.
SlotsAllocated(a) ==
  IF a.slotsCount # MaxUint16 THEN a.slotsCount
  ELSE ParseInt(a.buffer, slotsCountOffset, Int16ByteSize).v

\* SlotAllocator.writeSlotsAllocated
writeSlotsAllocated(a, count) ==
  LET written(r) ==
        IF ~r.ok THEN [a |-> a, ok |-> FALSE]
        ELSE [a |-> [a EXCEPT !.buffer = r.buf, !.slotsCount = count], ok |-> TRUE]
  IN written(PutInt(a.buffer, slotsCountOffset, count, Int16ByteSize))

\* SlotAllocator.slotHeaderOffset
slotHeaderOffset(index) == allocatorHeaderSize + index * allocatorSlotHeaderSize

\* SlotAllocator.slotHeaderAt
slotHeaderAt(a, index) ==
  LET parsed(r) == IF r.ok THEN [h |-> r.h, res |-> "ok"]
                   ELSE [h |-> NoHeader, res |-> "err"]
  IN IF index >= SlotsAllocated(a) THEN [h |-> NoHeader, res |-> "err"]
     ELSE IF slotHeaderOffset(index) > Len(a.buffer)
       THEN [h |-> NoHeader, res |-> "panic"]
     ELSE parsed(slotHeaderParseBinary(a.buffer, slotHeaderOffset(index)))

\* SlotAllocator.addToFreeList
addToFreeList(a, index, headerSize) ==
  [a EXCEPT !.freeList =
     AfterValueReceiver(a.freeList, AddHeader(a.freeList, index, headerSize).f)]

\* SlotAllocator.popFromFreeList
popFromFreeList(a, index) ==
  [a EXCEPT !.freeList =
     AfterValueReceiver(a.freeList, MarkHeaderUsed(a.freeList, index).f)]

RECURSIVE loadFreeListFrom(_, _, _)
\* SlotAllocator.loadFreeList over iterSlotHeaders, from slot i at offset.
loadFreeListFrom(a, i, offset) ==
  LET visit(r) ==
        IF ~r.ok THEN a
        ELSE loadFreeListFrom(
               IF r.h.status = slotStatusFree
                 THEN addToFreeList(a, i, r.h.size) ELSE a,
               i + 1, offset + r.n)
  IN IF i >= SlotsAllocated(a) THEN a
     ELSE visit(slotHeaderParseBinary(a.buffer, offset))

\* NewSlotAllocator: the slot count is read while the free list is loaded.
NewSlotAllocator(buffer) ==
  loadFreeListFrom(
    [buffer |-> buffer,
     slotsCount |-> SlotsAllocated([buffer |-> buffer, slotsCount |-> MaxUint16]),
     freeList |-> newFreeList],
    0, allocatorHeaderSize)

\* SlotAllocator.effectiveAllocatableSizeFrom
effectiveAllocatableSizeFrom(index, header) ==
  IF header.dataOffset < slotHeaderOffset((index + 2) % (MaxUint16 + 1)) THEN 0
  ELSE header.dataOffset - slotHeaderOffset((index + 2) % (MaxUint16 + 1))

\* SlotAllocator.effectiveAllocatableSizeEmpty
effectiveAllocatableSizeEmpty(a) == Len(a.buffer) - allocatorHeaderSize

\* SlotAllocator.allocateNewSlotOfSize.  base is the offset the new payload
\* ends at; dataOffset is computed after the size check: when the check
\* fails the code never uses it.
allocateNewSlotOfSize(a, size) ==
  LET fail(res, b) == [a |-> b, h |-> NoHeader, index |-> 0, res |-> res]
      counted(header, slotsCount, wr) ==
        IF ~wr.ok THEN fail("err", wr.a)
        ELSE [a |-> wr.a, h |-> header, index |-> slotsCount, res |-> "ok"]
      stored(header, slotsCount, put) ==
        IF ~put.ok THEN fail("err", [a EXCEPT !.buffer = put.buf])
        ELSE counted(header, slotsCount,
               writeSlotsAllocated([a EXCEPT !.buffer = put.buf], slotsCount + 1))
      store(header, slotsCount) ==
        stored(header, slotsCount,
               slotHeaderPutBinary(a.buffer, slotHeaderOffset(slotsCount), header))
      place(slotsCount, base, allocatable) ==
        IF size > allocatable THEN fail("err", a)
        ELSE IF slotHeaderOffset(slotsCount) > Len(a.buffer) THEN fail("panic", a)
        ELSE store([dataOffset |-> base - size, size |-> size,
                    status |-> slotStatusAllocated], slotsCount)
      afterLast(slotsCount, last) ==
        IF ~last.ok THEN fail("err", a)
        ELSE place(slotsCount, last.h.dataOffset,
                   effectiveAllocatableSizeFrom(slotsCount - 1, last.h))
      start(slotsCount) ==
        IF slotsCount = 0
          THEN place(slotsCount, Len(a.buffer), effectiveAllocatableSizeEmpty(a))
        ELSE IF slotHeaderOffset(slotsCount - 1) > Len(a.buffer)
          THEN fail("panic", a)
        ELSE afterLast(slotsCount,
               slotHeaderParseBinary(a.buffer, slotHeaderOffset(slotsCount - 1)))
  IN start(SlotsAllocated(a))

\* SlotAllocator.allocateFreeSlotOfSize
allocateFreeSlotOfSize(a, size) ==
  LET fail(res, b) == [a |-> b, h |-> NoHeader, index |-> 0, res |-> res]
      stored(index, header, put) ==
        IF ~put.ok THEN fail("err", [a EXCEPT !.buffer = put.buf])
        ELSE [a |-> popFromFreeList([a EXCEPT !.buffer = put.buf], index),
              h |-> header, index |-> index, res |-> "ok"]
      mark(index, header) ==
        stored(index, header,
               slotHeaderPutBinary(a.buffer, slotHeaderOffset(index), header))
      check(index, parsed) ==
        IF ~parsed.ok THEN fail("err", a)
        ELSE IF parsed.h.status # slotStatusFree \/ parsed.h.size < size
          THEN fail("none", popFromFreeList(a, index))
        ELSE mark(index, [parsed.h EXCEPT !.status = slotStatusAllocated])
      lookup(found) ==
        IF ~found.found THEN fail("none", a)
        ELSE IF slotHeaderOffset(found.index) > Len(a.buffer) THEN fail("panic", a)
        ELSE check(found.index,
                   slotHeaderParseBinary(a.buffer, slotHeaderOffset(found.index)))
  IN lookup(HeaderWithCapacity(a.freeList, size))

\* SlotAllocator.findSlotOrAllocate
findSlotOrAllocate(a, size) ==
  LET orAllocate(r) == IF r.res = "none" THEN allocateNewSlotOfSize(r.a, size) ELSE r
  IN orAllocate(allocateFreeSlotOfSize(a, size))

\* SlotAllocator.Allocate with a Buffer that runs to the end of the buffer,
\* buffer[offset:].
AllocateToEnd(a, size) ==
  LET allocation(r) ==
        IF r.res # "ok"
          THEN [a |-> r.a, res |-> r.res, Index |-> 0, offset |-> 0, size |-> 0]
        ELSE IF r.h.dataOffset > Len(r.a.buffer)
          THEN [a |-> r.a, res |-> "panic", Index |-> 0, offset |-> 0, size |-> 0]
        ELSE [a |-> r.a, res |-> "ok", Index |-> r.index,
              offset |-> r.h.dataOffset, size |-> Len(r.a.buffer) - r.h.dataOffset]
  IN allocation(findSlotOrAllocate(a, size))

\* SlotAllocator.Allocate: the Allocation is [Index, offset, size], its
\* Buffer being buffer[offset : offset+size].
Allocate(a, size) ==
  LET allocation(r) ==
        IF r.res # "ok"
          THEN [a |-> r.a, res |-> r.res, Index |-> 0, offset |-> 0, size |-> 0]
        ELSE IF r.h.dataOffset + r.h.size > Len(r.a.buffer)
          THEN [a |-> r.a, res |-> "panic", Index |-> 0, offset |-> 0, size |-> 0]
        ELSE [a |-> r.a, res |-> "ok", Index |-> r.index,
              offset |-> r.h.dataOffset, size |-> r.h.size]
  IN allocation(findSlotOrAllocate(a, size))

\* SlotAllocator.Deallocate
Deallocate(a, headerIndex) ==
  LET cleared(header, a1) ==
        IF header.dataOffset + header.size > Len(a.buffer)
          THEN [a |-> a1, res |-> "panic"]
        ELSE [a |-> [a1 EXCEPT !.buffer =
                       WriteAt(a1.buffer, header.dataOffset, Zeros(header.size))],
              res |-> "ok"]
      stored(header, put) ==
        IF ~put.ok THEN [a |-> [a EXCEPT !.buffer = put.buf], res |-> "err"]
        ELSE cleared(header,
               addToFreeList([a EXCEPT !.buffer = put.buf], headerIndex, header.size))
      free(header) ==
        stored(header,
               slotHeaderPutBinary(a.buffer, slotHeaderOffset(headerIndex), header))
      check(parsed) ==
        IF ~parsed.ok THEN [a |-> a, res |-> "err"]
        ELSE IF parsed.h.status # slotStatusAllocated THEN [a |-> a, res |-> "err"]
        ELSE free([parsed.h EXCEPT !.status = slotStatusFree])
  IN IF headerIndex >= SlotsAllocated(a) THEN [a |-> a, res |-> "err"]
     ELSE IF slotHeaderOffset(headerIndex) > Len(a.buffer)
       THEN [a |-> a, res |-> "panic"]
     ELSE check(slotHeaderParseBinary(a.buffer, slotHeaderOffset(headerIndex)))

\* SlotAllocator.GetAllocation
GetAllocation(a, index) ==
  LET none(res) == [res |-> res, Index |-> 0, offset |-> 0, size |-> 0]
      check(parsed) ==
        IF ~parsed.ok THEN none("err")
        ELSE IF parsed.h.status # slotStatusAllocated THEN none("err")
        ELSE IF parsed.h.dataOffset + parsed.h.size > Len(a.buffer) THEN none("panic")
        ELSE [res |-> "ok", Index |-> index,
              offset |-> parsed.h.dataOffset, size |-> parsed.h.size]
  IN IF index >= SlotsAllocated(a) THEN none("err")
     ELSE IF slotHeaderOffset(index) > Len(a.buffer) THEN none("panic")
     ELSE check(slotHeaderParseBinary(a.buffer, slotHeaderOffset(index)))

\* SlotAllocator.CanFit: the allocator after the call and the answer.  The
\* index of the last slot is computed in uint16.
CanFit(a, size) ==
  LET answer(b, lastIndex, last) ==
        IF last.res = "panic" THEN [a |-> b, fits |-> FALSE, res |-> "panic"]
        ELSE IF last.res # "ok" THEN [a |-> b, fits |-> FALSE, res |-> "ok"]
        ELSE [a |-> b, res |-> "ok",
              fits |-> size <= effectiveAllocatableSizeFrom(lastIndex, last.h)]
      lastOf(b, lastIndex) == answer(b, lastIndex, slotHeaderAt(b, lastIndex))
      tried(r) ==
        IF r.res = "ok" THEN [a |-> r.a, fits |-> TRUE, res |-> "ok"]
        ELSE IF r.res = "panic" THEN [a |-> r.a, fits |-> FALSE, res |-> "panic"]
        ELSE IF r.res # "none" THEN [a |-> r.a, fits |-> FALSE, res |-> "ok"]
        ELSE lastOf(r.a, (SlotsAllocated(r.a) + MaxUint16) % (MaxUint16 + 1))
  IN tried(allocateFreeSlotOfSize(a, size))

RECURSIVE SumCapacities(_)
\* What the visitor of FreeBytes adds up over the refs visited.
SumCapacities(refs) ==
  IF refs = <<>> THEN 0 ELSE Head(refs).capacity + SumCapacities(Tail(refs))

RECURSIVE LargestCapacity(_, _)
\* What the visitor of LargestAllocatableSize keeps over the refs visited.
LargestCapacity(refs, largestFree) ==
  IF refs = <<>> THEN largestFree
  ELSE LargestCapacity(Tail(refs), IF Head(refs).capacity > largestFree
                                     THEN Head(refs).capacity ELSE largestFree)

\* SlotAllocator.FreeBytes
FreeBytes(a) ==
  LET visited(lastIndex, last, refs) ==
        [v |-> effectiveAllocatableSizeFrom(lastIndex, last.h) + SumCapacities(refs),
         res |-> "ok"]
      tail(lastIndex, last) ==
        IF last.res = "panic" THEN [v |-> 0, res |-> "panic"]
        ELSE IF last.res # "ok" THEN [v |-> 0, res |-> "ok"]
        ELSE visited(lastIndex, last, freeListVisit(a.freeList, a.freeList.head))
      lastOf(lastIndex) == tail(lastIndex, slotHeaderAt(a, lastIndex))
  IN IF SlotsAllocated(a) = 0
       THEN [v |-> effectiveAllocatableSizeEmpty(a), res |-> "ok"]
       ELSE lastOf(SlotsAllocated(a) - 1)

\* SlotAllocator.LargestAllocatableSize
LargestAllocatableSize(a) ==
  LET visited(lastIndex, last, refs) ==
        [v |-> LargestCapacity(refs, effectiveAllocatableSizeFrom(lastIndex, last.h)),
         res |-> "ok"]
      tail(lastIndex, last) ==
        IF last.res = "panic" THEN [v |-> 0, res |-> "panic"]
        ELSE IF last.res # "ok" THEN [v |-> 0, res |-> "ok"]
        ELSE visited(lastIndex, last, freeListVisit(a.freeList, a.freeList.head))
      lastOf(lastIndex) == tail(lastIndex, slotHeaderAt(a, lastIndex))
  IN IF SlotsAllocated(a) = 0
       THEN [v |-> effectiveAllocatableSizeEmpty(a), res |-> "ok"]
       ELSE lastOf(SlotsAllocated(a) - 1)

\* The slot headers of an allocator's buffer, by slot index (iterSlotHeaders).
SlotHeaders(a) ==
  [i \in 0..(SlotsAllocated(a) - 1) |->
     slotHeaderParseBinary(a.buffer, slotHeaderOffset(i)).h]

(***************************************************************************)
(* Variable-length byte arrays (pkg/raw/char.go).  A Go slice buf[off:] is *)
(* the pair of a buffer and an offset; a slice of bounded length is cut    *)
(* out with Slice and written back with WriteAt.                           *)
(***************************************************************************)
\* raw.VarCharSizeFor
VarCharSizeFor(source) == Int32ByteSize + Len(source)

\* raw.ParseInt32 from buf[off:]: the four bytes as a two's complement int32.
ParseInt32(buf, off) ==
  LET signed(b) ==
        IF b[1] < 128 THEN BEValue(b)
        ELSE (BEValue(<<b[1] - 128, b[2], b[3], b[4]>>) - 2147483647) - 1
  IN IF Len(buf) - off < Int32ByteSize
       THEN [v |-> 0, n |-> 0, ok |-> FALSE]
       ELSE [v |-> signed(Slice(buf, off, Int32ByteSize)), n |-> Int32ByteSize,
             ok |-> TRUE]

\* raw.GetVarCharSize on buf[off:]: the length prefix as it is, whatever its
\* sign and whatever follows it.
GetVarCharSize(buf, off) == ParseInt32(buf, off)

\* raw.VarCharSizeInBuffer on buf[off:].
VarCharSizeInBuffer(buf, off) ==
  LET sized(r) == [v |-> IF r.ok THEN r.v + Int32ByteSize ELSE 0, ok |-> r.ok]
  IN sized(GetVarCharSize(buf, off))

\* raw.PutVarChar into buf[off:]: the length is checked against the data
\* alone, and copy writes what fits after the length prefix.
PutVarChar(buf, off, data) ==
  LET copied(room) == IF Len(data) < room THEN Len(data) ELSE room
      written(r) ==
        IF ~r.ok THEN [buf |-> buf, n |-> 0, ok |-> FALSE]
        ELSE [buf |-> WriteAt(r.buf, off + r.n,
                              SubSeq(data, 1, copied(Len(buf) - off - r.n))),
              n |-> r.n + copied(Len(buf) - off - r.n), ok |-> TRUE]
  IN IF Len(buf) - off < Len(data) THEN [buf |-> buf, n |-> 0, ok |-> FALSE]
     ELSE written(PutInt(buf, off, Len(data), Int32ByteSize))

\* raw.ParseVarChar from buf[off:] into an output of outLen bytes: the bytes
\* copied, the bytes read, and the outcome.
ParseVarChar(buf, off, outLen) ==
  LET none(res) == [data |-> <<>>, n |-> 0, res |-> res]
      copy(r) ==
        IF ~r.ok THEN none("err")
        ELSE IF outLen < r.v THEN none("err")
        ELSE IF r.v < 0 THEN none("panic")
        ELSE IF off + Int32ByteSize + r.v > Len(buf) THEN none("panic")
        ELSE [data |-> Slice(buf, off + Int32ByteSize, r.v),
              n |-> Int32ByteSize + r.v, res |-> "ok"]
  IN copy(GetVarCharSize(buf, off))

(***************************************************************************)
(* Items (package item).  An item is [itemType, intValue, bytesValue]; a   *)
(* string item keeps its bytes in bytesValue.                              *)
(***************************************************************************)
Int64(data) == [itemType |-> ItemTypeInteger, intValue |-> data, bytesValue |-> <<>>]
String(data) == [itemType |-> ItemTypeString, intValue |-> 0, bytesValue |-> data]
Bytes(data) == [itemType |-> ItemTypeBytes, intValue |-> 0, bytesValue |-> data]

\* ItemType.ItemByteSize on buf[off:].
ItemByteSize(it, buf, off) ==
  LET sized(r) == IF r.ok THEN r.v ELSE 0 - 1
  IN IF it = ItemTypeInteger THEN Int64ByteSize
     ELSE IF it \in {ItemTypeString, ItemTypeBytes}
       THEN sized(VarCharSizeInBuffer(buf, off))
     ELSE 0 - 1

\* Item.ByteSize
ItemSize(i) ==
  IF i.itemType = ItemTypeInteger THEN Int64ByteSize
  ELSE IF i.itemType \in {ItemTypeString, ItemTypeBytes}
    THEN VarCharSizeFor(i.bytesValue)
  ELSE 0 - 1

\* Item.PutBinary into buf[off:].
ItemPutBinary(i, buf, off) ==
  IF i.itemType = ItemTypeInteger THEN PutInt(buf, off, i.intValue, Int64ByteSize)
  ELSE IF i.itemType \in {ItemTypeString, ItemTypeBytes}
    THEN PutVarChar(buf, off, i.bytesValue)
  ELSE [buf |-> buf, n |-> 0, ok |-> FALSE]

RECURSIVE ItemsSize(_)
\* item.ItemsSize
ItemsSize(items) ==
  IF Len(items) = 0 THEN 0
  ELSE ItemsSize(SubSeq(items, 1, Len(items) - 1)) + ItemSize(items[Len(items)])

RECURSIVE ItemsPutFrom(_, _, _, _)
\* The loop of ItemsPutBinary from item k on, writtenTotal bytes written.
ItemsPutFrom(items, buf, k, writtenTotal) ==
  LET next(r) ==
        IF ~r.ok THEN [buf |-> r.buf, n |-> 0, ok |-> FALSE]
        ELSE ItemsPutFrom(items, r.buf, k + 1, writtenTotal + r.n)
  IN IF k > Len(items) THEN [buf |-> buf, n |-> writtenTotal, ok |-> TRUE]
     ELSE next(ItemPutBinary(items[k], buf, writtenTotal))

\* item.ItemsPutBinary into the slice buf.
ItemsPutBinary(items, buf) == ItemsPutFrom(items, buf, 1, 0)

(***************************************************************************)
(* Buffer pages (pkg/page/buffered.go).  A frame is the struct [pins,      *)
(* referenceBit, isDirty, initializedBit, flushCallback, pageBlock], with  *)
(* flushCallback TRUE once a callback is installed.                        *)
(***************************************************************************)
NewBufferPage ==
  [pins |-> 0, referenceBit |-> FALSE, isDirty |-> FALSE,
   initializedBit |-> FALSE, flushCallback |-> FALSE,
   pageBlock |-> Zeros(pageSize)]

\* BufferPage.Id
Id(p) == ParseInt(p.pageBlock, pageIdOffset, pageIdSize).v

\* BufferPage.markDirty
markDirty(p) == [p EXCEPT !.isDirty = TRUE]

\* BufferPage.clearDirty
clearDirty(p) == [p EXCEPT !.isDirty = FALSE]

\* BufferPage.SetId
SetId(p, id) ==
  markDirty([p EXCEPT !.pageBlock = PutInt(p.pageBlock, pageIdOffset, id, pageIdSize).buf])

\* BufferPage.Version
Version(p) == ParseInt(p.pageBlock, pageVersionOffset, pageVersionSize).v

\* BufferPage.SetVersion
SetVersion(p) ==
  markDirty([p EXCEPT !.pageBlock =
               PutInt(p.pageBlock, pageVersionOffset, pageVersion, pageVersionSize).buf])

\* BufferPage.PageType
PageType(p) == ParseInt(p.pageBlock, pageTypeOffset, pageTypeSize).v

\* BufferPage.SetPageType
SetPageType(p, pt) ==
  markDirty([p EXCEPT !.pageBlock =
               PutInt(p.pageBlock, pageTypeOffset, pt, pageTypeSize).buf])

\* BufferPage.Data: the data area of the block.
Data(p) == SubSeq(p.pageBlock, pageHeaderSize + 1, pageSize)

\* The frame after its data area, which Data aliases, was written through.
WithData(p, data) ==
  [p EXCEPT !.pageBlock = SubSeq(p.pageBlock, 1, pageHeaderSize) \o data]

\* BufferPage.IsPinned
IsPinned(p) == p.pins > 0

\* BufferPage.Pin
Pin(p) == [p EXCEPT !.pins = p.pins + 1, !.referenceBit = TRUE]

\* BufferPage.Unpin
Unpin(p) ==
  [p EXCEPT !.pins = IF p.pins - 1 < 0 THEN 0 ELSE p.pins - 1,
            !.referenceBit = TRUE]

\* BufferPage.validateVersion
validateVersion(p) == Version(p) = pageVersion

(***************************************************************************)
(* The paging file (package page, Pager).  The file is the sequence of its *)
(* pageSize blocks, block n at offset n*pageSize.                          *)
(***************************************************************************)
RECURSIVE ZeroBlocks(_)
ZeroBlocks(n) == IF n <= 0 THEN <<>> ELSE <<Zeros(pageSize)>> \o ZeroBlocks(n - 1)

\* fd.WriteAt(block, pageOffset(n)): a write past the end leaves a hole of zeros.
fileWriteAt(file, n, block) ==
  IF n < Len(file) THEN [file EXCEPT ![n + 1] = block]
  ELSE file \o ZeroBlocks(n - Len(file)) \o <<block>>

\* Pager.flushPageToDisk, written being the outcome of fd.WriteAt: the frame
\* and the file after the call.
flushPageToDisk(p, file, written) ==
  IF written
    THEN [p |-> clearDirty(p), file |-> fileWriteAt(file, Id(p), p.pageBlock),
          ok |-> TRUE]
    ELSE [p |-> p, file |-> file, ok |-> FALSE]

\* bind as it would be if it never called the flush callback: the dirty
\* victim's block is cleared without having been written.
bindUnflushed(p, id, file, flushed) ==
  [p |-> clearDirty(SetId(SetVersion(
           [p EXCEPT !.initializedBit = TRUE, !.referenceBit = TRUE,
                     !.pins = 0, !.flushCallback = TRUE,
                     !.pageBlock = Zeros(pageSize)]), id)),
   file |-> file, ok |-> TRUE]

\* BufferPage.bind with the pager's flush callback, flushed being the outcome
\* of the callback: a dirty frame that has a callback is written out first,
\* and a failed callback ends the call; the block is cleared, stamped with
\* the version and the id, and the dirty flag is cleared last.
bind(p, id, file, flushed) ==
  LET rebound(fl) ==
        IF ~fl.ok THEN [p |-> p, file |-> file, ok |-> FALSE]
        ELSE [p |-> clearDirty(SetId(SetVersion(
                      [fl.p EXCEPT !.initializedBit = TRUE, !.referenceBit = TRUE,
                                   !.pins = 0, !.flushCallback = TRUE,
                                   !.pageBlock = Zeros(pageSize)]), id)),
              file |-> fl.file, ok |-> TRUE]
  IN rebound(IF p.isDirty /\ p.flushCallback
               THEN flushPageToDisk(p, file, flushed)
               ELSE [p |-> p, file |-> file, ok |-> TRUE])

(***************************************************************************)
(* The clock pool (package page, clockPagePool).  A pool is [addresses,    *)
(* pages, hand]: the map from page id to frame, the frames, numbered from  *)
(* 1, and the hand, counted from 0 as in the code.                         *)
(***************************************************************************)
\* nextHandIndex
nextHandIndex(current, capacity) == IF current + 1 >= capacity THEN 0 ELSE current + 1

\* newClockPagePool
newClockPagePool(bufferSize) ==
  [addresses |-> <<>>, pages |-> [k \in 1..bufferSize |-> NewBufferPage], hand |-> 0]

RECURSIVE evictFirstUnpinned(_, _)
\* The sweep as it would be without the second chance: the first unpinned
\* frame under the hand is chosen whatever its reference bit.
evictFirstUnpinned(ca, i) ==
  LET probe(k, moved) ==
        IF IsPinned(moved.pages[k]) THEN evictFirstUnpinned(moved, i + 1)
        ELSE [ca |-> moved, victim |-> k, res |-> "ok", probes |-> i + 1]
  IN IF i >= Len(ca.pages) * 2
       THEN [ca |-> ca, victim |-> NIL, res |-> "err", probes |-> i]
     ELSE probe(ca.hand + 1,
                [ca EXCEPT !.hand = nextHandIndex(ca.hand, Len(ca.pages))])

RECURSIVE evictFrom(_, _)
\* The loop of clockPagePool.evictPage from probe i on; getHandPage takes the
\* frame under the hand and advances the hand.
evictFrom(ca, i) ==
  LET probe(k, moved) ==
        IF IsPinned(moved.pages[k]) THEN evictFrom(moved, i + 1)
        ELSE IF moved.pages[k].referenceBit
          THEN evictFrom([moved EXCEPT !.pages[k].referenceBit = FALSE], i + 1)
        ELSE [ca |-> moved, victim |-> k, res |-> "ok", probes |-> i + 1]
  IN IF i >= Len(ca.pages) * 2
       THEN [ca |-> ca, victim |-> NIL, res |-> "err", probes |-> i]
     ELSE probe(ca.hand + 1,
                [ca EXCEPT !.hand = nextHandIndex(ca.hand, Len(ca.pages))])

\* evictPage as it would be with one revolution of the hand: the sweep has
\* len(pages) probes left when it starts.
evictPageOneRevolution(ca) == evictFrom(ca, Len(ca.pages))

\* clockPagePool.evictPage
evictPage(ca) == evictFrom(ca, 0)

\* AllocatePage as it would be if the victim's old id were left in the
\* address map.
AllocatePageKeepingVictim(ca, id, file, flushed) ==
  LET none(b, f, victim, why, probes) ==
        [ca |-> b, file |-> f, res |-> "err", frame |-> NIL, victim |-> victim,
         why |-> why, probes |-> probes]
      bound(unmapped, victim, b, probes) ==
        IF ~b.ok THEN none(unmapped, b.file, victim, "flush", probes)
        ELSE [ca |-> [unmapped EXCEPT
                        !.pages[victim] = b.p,
                        !.addresses = SetNode(unmapped.addresses, id, victim)],
              file |-> b.file, res |-> "ok", frame |-> victim, victim |-> victim,
              why |-> "", probes |-> probes]
      rebind(unmapped, victim, probes) ==
        bound(unmapped, victim, bind(unmapped.pages[victim], id, file, flushed),
              probes)
      evicted(e) ==
        IF e.res # "ok" THEN none(e.ca, file, NIL, "unable to evict", e.probes)
        ELSE rebind(e.ca, e.victim, e.probes)
  IN IF id \in DOMAIN ca.addresses THEN none(ca, file, NIL, "already allocated", 0)
     ELSE evicted(evictPage(ca))

\* clockPagePool.AllocatePage with the pager's flush callback: the pool and
\* the file after the call, the frame returned and the victim chosen.
AllocatePage(ca, id, file, flushed) ==
  LET none(b, f, victim, why, probes) ==
        [ca |-> b, file |-> f, res |-> "err", frame |-> NIL, victim |-> victim,
         why |-> why, probes |-> probes]
      bound(unmapped, victim, b, probes) ==
        IF ~b.ok THEN none(unmapped, b.file, victim, "flush", probes)
        ELSE [ca |-> [unmapped EXCEPT
                        !.pages[victim] = b.p,
                        !.addresses = SetNode(unmapped.addresses, id, victim)],
              file |-> b.file, res |-> "ok", frame |-> victim, victim |-> victim,
              why |-> "", probes |-> probes]
      rebind(unmapped, victim, probes) ==
        bound(unmapped, victim, bind(unmapped.pages[victim], id, file, flushed),
              probes)
      evicted(e) ==
        IF e.res # "ok" THEN none(e.ca, file, NIL, "unable to evict", e.probes)
        ELSE rebind(IF e.ca.pages[e.victim].initializedBit
                      THEN [e.ca EXCEPT !.addresses =
                              Without(e.ca.addresses, Id(e.ca.pages[e.victim]))]
                      ELSE e.ca,
                    e.victim, e.probes)
  IN IF id \in DOMAIN ca.addresses THEN none(ca, file, NIL, "already allocated", 0)
     ELSE evicted(evictPage(ca))

\* clockPagePool.GetPage: the pool after the call and the frame found.
GetPage(ca, id) ==
  IF id \notin DOMAIN ca.addresses THEN [ca |-> ca, frame |-> NIL, found |-> FALSE]
  ELSE [ca |-> [ca EXCEPT !.pages[ca.addresses[id]].referenceBit = TRUE],
        frame |-> ca.addresses[id], found |-> TRUE]

(***************************************************************************)
(* The metadata page (package page, metadata.go).  A column descriptor is  *)
(* [Type, Name], a table descriptor [Name, Columns, DataPages], the        *)
(* metadata [pagesCount, tables]; names are byte sequences.  The codecs    *)
(* work on the page's data area and an offset into it, and return the      *)
(* offset they reached.                                                    *)
(***************************************************************************)
NoColumn == [Type |-> 0, Name |-> <<>>]
NoTable == [Name |-> <<>>, Columns |-> <<>>, DataPages |-> <<>>]
NoMetadata == [pagesCount |-> 0, tables |-> <<>>]

\* ColumnDescriptor.ByteSize
ColumnDescriptorByteSize(c) == Int8ByteSize + Int32ByteSize + Len(c.Name)

\* ColumnDescriptor.PutBinary into buf[off:].
ColumnDescriptorPutBinary(c, buf, off) ==
  LET named(t, r) == [buf |-> r.buf, off |-> off + t.n + r.n, ok |-> r.ok]
      typed(t) ==
        IF ~t.ok THEN [buf |-> buf, off |-> off, ok |-> FALSE]
        ELSE IF Len(c.Name) > maxColumnNameLength
          THEN [buf |-> t.buf, off |-> off + t.n, ok |-> FALSE]
        ELSE named(t, PutVarChar(t.buf, off + t.n, c.Name))
  IN typed(PutInt(buf, off, c.Type, Int8ByteSize))

\* ColumnDescriptor.ParseBinary from buf[off:].
ColumnDescriptorParseBinary(buf, off) ==
  LET none(res) == [c |-> NoColumn, off |-> off, res |-> res]
      named(t, r) ==
        IF r.res # "ok" THEN none(r.res)
        ELSE [c |-> [Type |-> t.v, Name |-> r.data], off |-> off + t.n + r.n,
              res |-> "ok"]
      sized(t, s) ==
        IF ~s.ok THEN none("err")
        ELSE IF s.v > maxColumnNameLength THEN none("err")
        ELSE IF s.v + t.n + VarCharHeaderSize > Len(buf) - off THEN none("err")
        ELSE named(t, ParseVarChar(buf, off + t.n, s.v))
      typed(t) ==
        IF ~t.ok THEN none("err") ELSE sized(t, GetVarCharSize(buf, off + t.n))
  IN typed(ParseInt(buf, off, Int8ByteSize))

RECURSIVE ColumnsByteSize(_)
ColumnsByteSize(cols) ==
  IF cols = <<>> THEN 0
  ELSE ColumnDescriptorByteSize(Head(cols)) + ColumnsByteSize(Tail(cols))

\* TableDescriptor.ByteSize
TableDescriptorByteSize(t) ==
  Int16ByteSize + ColumnsByteSize(t.Columns)
  + Int16ByteSize + Int32ByteSize * Len(t.DataPages)
  + Int32ByteSize + Len(t.Name)

\* The loop over t.Columns in TableDescriptor.PutBinary, from column k.
RECURSIVE ColumnsPutFrom(_, _, _, _)
ColumnsPutFrom(cols, buf, off, k) ==
  LET put(r) == IF ~r.ok THEN r ELSE ColumnsPutFrom(cols, r.buf, r.off, k + 1)
  IN IF k > Len(cols) THEN [buf |-> buf, off |-> off, ok |-> TRUE]
     ELSE put(ColumnDescriptorPutBinary(cols[k], buf, off))

\* The loop over t.DataPages in TableDescriptor.PutBinary, from page k, in
\* closed form: raw.PutUint32 writes the ids one after the other while four
\* bytes are left, and the loop ends at the first id that does not fit.
DataPagesPutFrom(ids, buf, off, k) ==
  LET left == Len(ids) - k + 1
      room == IF Len(buf) > off THEN (Len(buf) - off) \div Int32ByteSize ELSE 0
      fit == IF left < room THEN left ELSE room
      bytes == [i \in 1..(Int32ByteSize * fit) |->
                  BigEndian(ids[k + ((i - 1) \div Int32ByteSize)], Int32ByteSize)
                    [((i - 1) % Int32ByteSize) + 1]]
  IN IF left <= 0 THEN [buf |-> buf, off |-> off, ok |-> TRUE]
     ELSE [buf |-> WriteAt(buf, off, bytes), off |-> off + Int32ByteSize * fit,
           ok |-> fit = left]

\* TableDescriptor.PutBinary into buf[off:]: the name's length is checked
\* after the columns and the data pages have been written.
TableDescriptorPutBinary(t, buf, off) ==
  LET named(r) == [buf |-> r.buf, off |-> off + r.n, ok |-> r.ok]
      paged(p) ==
        IF ~p.ok THEN p
        ELSE IF Len(t.Name) > maxTableNameLength
          THEN [buf |-> p.buf, off |-> p.off, ok |-> FALSE]
        ELSE LET name(r) == [buf |-> r.buf, off |-> p.off + r.n, ok |-> r.ok]
             IN name(PutVarChar(p.buf, p.off, t.Name))
      pageCounted(c, r) ==
        IF ~r.ok THEN [buf |-> r.buf, off |-> c.off, ok |-> FALSE]
        ELSE paged(DataPagesPutFrom(t.DataPages, r.buf, c.off + r.n, 1))
      columned(c) ==
        IF ~c.ok THEN c
        ELSE pageCounted(c, PutInt(c.buf, c.off, Len(t.DataPages), Int16ByteSize))
      columnCounted(r) ==
        IF ~r.ok THEN [buf |-> buf, off |-> off, ok |-> FALSE]
        ELSE columned(ColumnsPutFrom(t.Columns, r.buf, off + r.n, 1))
  IN IF Len(buf) - off < TableDescriptorByteSize(t)
       THEN [buf |-> buf, off |-> off, ok |-> FALSE]
       ELSE columnCounted(PutInt(buf, off, Len(t.Columns), Int16ByteSize))

\* The loop over the columns in TableDescriptor.ParseBinary: count columns
\* still to read, cols read so far.
RECURSIVE ColumnsParseFrom(_, _, _, _)
ColumnsParseFrom(buf, off, count, cols) ==
  LET parsed(r) ==
        IF r.res # "ok" THEN [cols |-> <<>>, off |-> off, res |-> r.res]
        ELSE ColumnsParseFrom(buf, r.off, count - 1, Append(cols, r.c))
  IN IF count = 0 THEN [cols |-> cols, off |-> off, res |-> "ok"]
     ELSE parsed(ColumnDescriptorParseBinary(buf, off))

\* The loop over the data pages in TableDescriptor.ParseBinary.
RECURSIVE DataPagesParseFrom(_, _, _, _)
DataPagesParseFrom(buf, off, count, ids) ==
  LET parsed(r) ==
        IF ~r.ok THEN [ids |-> <<>>, off |-> off, res |-> "err"]
        ELSE DataPagesParseFrom(buf, off + r.n, count - 1, Append(ids, r.v))
  IN IF count = 0 THEN [ids |-> ids, off |-> off, res |-> "ok"]
     ELSE parsed(ParseInt(buf, off, Int32ByteSize))

\* TableDescriptor.ParseBinary from buf[off:].
TableDescriptorParseBinary(buf, off) ==
  LET none(res) == [t |-> NoTable, off |-> off, res |-> res]
      named(c, p, r) ==
        IF r.res # "ok" THEN none(r.res)
        ELSE [t |-> [Name |-> r.data, Columns |-> c.cols, DataPages |-> p.ids],
              off |-> p.off + r.n, res |-> "ok"]
      sized(c, p, s) ==
        IF ~s.ok THEN none("err")
        ELSE IF s.v > maxTableNameLength THEN none("err")
        ELSE IF s.v + (p.off - off) + VarCharHeaderSize > Len(buf) - off
          THEN none("err")
        ELSE named(c, p, ParseVarChar(buf, p.off, s.v))
      paged(c, p) ==
        IF p.res # "ok" THEN none(p.res) ELSE sized(c, p, GetVarCharSize(buf, p.off))
      pageCounted(c, r) ==
        IF ~r.ok THEN none("err")
        ELSE paged(c, DataPagesParseFrom(buf, c.off + r.n, r.v, <<>>))
      columned(c) ==
        IF c.res # "ok" THEN none(c.res)
        ELSE pageCounted(c, ParseInt(buf, c.off, Int16ByteSize))
      columnCounted(r) ==
        IF ~r.ok THEN none("err")
        ELSE columned(ColumnsParseFrom(buf, off + r.n, r.v, <<>>))
  IN columnCounted(ParseInt(buf, off, Int16ByteSize))

RECURSIVE TablesByteSize(_)
TablesByteSize(tables) ==
  IF tables = <<>> THEN 0
  ELSE TableDescriptorByteSize(Head(tables)) + TablesByteSize(Tail(tables))

\* metadata.ByteSize
metadataByteSize(m) == Int32ByteSize + Int16ByteSize + TablesByteSize(m.tables)

\* The loop over m.tables in metadata.PutBinary, from table k.
RECURSIVE TablesPutFrom(_, _, _, _)
TablesPutFrom(tables, buf, off, k) ==
  LET put(r) == IF ~r.ok THEN r ELSE TablesPutFrom(tables, r.buf, r.off, k + 1)
  IN IF k > Len(tables) THEN [buf |-> buf, off |-> off, ok |-> TRUE]
     ELSE put(TableDescriptorPutBinary(tables[k], buf, off))

\* metadata.PutBinary into buf: the buffer after the call, whether it failed
\* or not.
metadataPutBinary(m, buf) ==
  LET tableCounted(c, r) ==
        IF ~r.ok THEN [buf |-> r.buf, off |-> c.n, ok |-> FALSE]
        ELSE TablesPutFrom(m.tables, r.buf, c.n + r.n, 1)
      counted(c) ==
        IF ~c.ok THEN [buf |-> buf, off |-> 0, ok |-> FALSE]
        ELSE tableCounted(c, PutInt(c.buf, c.n, Len(m.tables), Int16ByteSize))
  IN IF Len(buf) < metadataByteSize(m) THEN [buf |-> buf, off |-> 0, ok |-> FALSE]
     ELSE counted(PutInt(buf, 0, m.pagesCount, Int32ByteSize))

\* The loop over the tables in metadata.ParseBinary.
RECURSIVE TablesParseFrom(_, _, _, _)
TablesParseFrom(buf, off, count, tables) ==
  LET parsed(r) ==
        IF r.res # "ok" THEN [tables |-> <<>>, off |-> off, res |-> r.res]
        ELSE TablesParseFrom(buf, r.off, count - 1, Append(tables, r.t))
  IN IF count = 0 THEN [tables |-> tables, off |-> off, res |-> "ok"]
     ELSE parsed(TableDescriptorParseBinary(buf, off))

\* metadata.ParseBinary from buf.
metadataParseBinary(buf) ==
  LET none(res) == [m |-> NoMetadata, res |-> res]
      tabled(c, t) ==
        IF t.res # "ok" THEN none(t.res)
        ELSE [m |-> [pagesCount |-> c.v, tables |-> t.tables], res |-> "ok"]
      tableCounted(c, r) ==
        IF ~r.ok THEN none("err")
        ELSE tabled(c, TablesParseFrom(buf, c.n + r.n, r.v, <<>>))
      counted(c) ==
        IF ~c.ok THEN none("err")
        ELSE tableCounted(c, ParseInt(buf, c.n, Int16ByteSize))
  IN counted(ParseInt(buf, 0, Int32ByteSize))

\* NewMetadataPage over the frame bp: the metadata parsed from its data area.
NewMetadataPage(bp) ==
  IF PageType(bp) # PageTypeMetadata THEN [metadata |-> NoMetadata, res |-> "err"]
  ELSE LET parsed(r) == [metadata |-> r.m, res |-> r.res]
       IN parsed(metadataParseBinary(Data(bp)))

\* MetadataPage.sync of the metadata m into the frame bp: a PutBinary that
\* fails has written what it wrote and the frame is not marked dirty.
sync(m, bp) ==
  LET put(r) ==
        IF r.ok THEN [bp |-> markDirty(WithData(bp, r.buf)), ok |-> TRUE]
        ELSE [bp |-> WithData(bp, r.buf), ok |-> FALSE]
  IN put(metadataPutBinary(m, Data(bp)))

\* MetadataPage.findTableByName: the index of the table, 0 when absent.
findTableByName(m, name) ==
  IF \E i \in 1..Len(m.tables) : m.tables[i].Name = name
    THEN CHOOSE i \in 1..Len(m.tables) :
           /\ m.tables[i].Name = name
           /\ \A j \in 1..(i - 1) : m.tables[j].Name # name
    ELSE 0

\* MetadataPage.SetPagesCount
SetPagesCount(m, bp, count) ==
  LET synced(r) == [metadata |-> [m EXCEPT !.pagesCount = count], bp |-> r.bp,
                    ok |-> r.ok]
  IN synced(sync([m EXCEPT !.pagesCount = count], bp))

\* MetadataPage.AddTable without its check of the name.
AddTableUnchecked(m, bp, table) ==
  LET synced(r) ==
        [metadata |-> [m EXCEPT !.tables = Append(m.tables, table)],
         bp |-> r.bp, ok |-> r.ok, why |-> IF r.ok THEN "" ELSE "sync"]
  IN synced(sync([m EXCEPT !.tables = Append(m.tables, table)], bp))

\* MetadataPage.AddTable: the table is appended to the in-memory metadata
\* before sync is tried; why tells the errors apart.
AddTable(m, bp, table) ==
  IF findTableByName(m, table.Name) # 0
    THEN [metadata |-> m, bp |-> bp, ok |-> FALSE, why |-> "already exists"]
    ELSE LET synced(r) ==
               [metadata |-> [m EXCEPT !.tables = Append(m.tables, table)],
                bp |-> r.bp, ok |-> r.ok, why |-> IF r.ok THEN "" ELSE "sync"]
         IN synced(sync([m EXCEPT !.tables = Append(m.tables, table)], bp))

\* MetadataPage.UpdateTable
UpdateTable(m, bp, table) ==
  IF findTableByName(m, table.Name) = 0
    THEN [metadata |-> m, bp |-> bp, ok |-> FALSE]
    ELSE LET replaced == [m EXCEPT !.tables[findTableByName(m, table.Name)] = table]
             synced(r) == [metadata |-> replaced, bp |-> r.bp, ok |-> r.ok]
         IN synced(sync(replaced, bp))

(***************************************************************************)
(* The pager (package page, Pager).  A pager is [pool, file]; its file     *)
(* reads and writes succeed, except reads past the end of the file.  Each  *)
(* operation returns the pager after the call and ev, the evictions it     *)
(* made, in order: the frame, the id and block it held, whether it was     *)
(* initialized and dirty, and the id it was rebound to.                    *)
(***************************************************************************)
\* The eviction an AllocatePage made, if it chose a victim and rebound it.
Evictions(before, a, id) ==
  IF a.res # "ok" THEN <<>>
  ELSE <<[frame |-> a.victim, oldId |-> Id(before.pages[a.victim]),
          oldBlock |-> before.pages[a.victim].pageBlock,
          wasInit |-> before.pages[a.victim].initializedBit,
          wasDirty |-> before.pages[a.victim].isDirty,
          pins |-> before.pages[a.victim].pins,
          newId |-> id]>>

\* Pager.FetchPage: a frame AllocatePage has bound stays bound when the read
\* or the version check fails.
FetchPage(pg, n) ==
  LET failed(ca, f, ev) ==
        [pg |-> [pool |-> ca, file |-> f], frame |-> NIL, res |-> "err", ev |-> ev]
      loaded(ca, f, k, ev) ==
        IF validateVersion(ca.pages[k])
          THEN [pg |-> [pool |-> ca, file |-> f], frame |-> k, res |-> "ok", ev |-> ev]
          ELSE failed(ca, f, ev)
      read(a, ev) ==
        IF a.res # "ok" THEN failed(a.ca, a.file, ev)
        ELSE IF n >= Len(a.file) THEN failed(a.ca, a.file, ev)
        ELSE loaded([a.ca EXCEPT !.pages[a.frame].pageBlock = a.file[n + 1]],
                    a.file, a.frame, ev)
      allocated(a) == read(a, Evictions(pg.pool, a, n))
      got(g) ==
        IF g.found
          THEN [pg |-> [pool |-> g.ca, file |-> pg.file], frame |-> g.frame,
                res |-> "ok", ev |-> <<>>]
          ELSE allocated(AllocatePage(g.ca, n, pg.file, TRUE))
  IN got(GetPage(pg.pool, n))

\* appendPageNoMetadata as it would be if it never wrote the new page's block
\* to the file.
appendPageUnwritten(pg, id) ==
  LET allocated(a) ==
        [pg |-> [pool |-> a.ca, file |-> a.file],
         frame |-> IF a.res = "ok" THEN a.frame ELSE NIL, res |-> a.res,
         ev |-> Evictions(pg.pool, a, id)]
  IN allocated(AllocatePage(pg.pool, id, pg.file, TRUE))

\* Pager.appendPageNoMetadata: the block of the frame just bound is written
\* at the page's offset.
appendPageNoMetadata(pg, id) ==
  LET written(a, ev) ==
        IF a.res # "ok"
          THEN [pg |-> [pool |-> a.ca, file |-> a.file], frame |-> NIL,
                res |-> "err", ev |-> ev]
          ELSE [pg |-> [pool |-> a.ca,
                        file |-> fileWriteAt(a.file, id, a.ca.pages[a.frame].pageBlock)],
                frame |-> a.frame, res |-> "ok", ev |-> ev]
      allocated(a) == written(a, Evictions(pg.pool, a, id))
  IN allocated(AllocatePage(pg.pool, id, pg.file, TRUE))

\* Pager.MetadataPage: the frame of page 0 and the metadata parsed from it.
MetadataPage(pg) ==
  LET parsed(f, m) ==
        [pg |-> f.pg, frame |-> IF m.res = "ok" THEN f.frame ELSE NIL,
         metadata |-> m.metadata, res |-> m.res, ev |-> f.ev]
      fetched(f) ==
        IF f.res # "ok"
          THEN [pg |-> f.pg, frame |-> NIL, metadata |-> NoMetadata,
                res |-> "err", ev |-> f.ev]
          ELSE parsed(f, NewMetadataPage(f.pg.pool.pages[f.frame]))
  IN fetched(FetchPage(pg, metadataPageId))

\* Pager.appendMetadataPage
appendMetadataPage(pg) ==
  LET counted(a, s) ==
        [pg |-> [a.pg EXCEPT !.pool.pages[a.frame] = s.bp], frame |-> a.frame,
         metadata |-> s.metadata, res |-> "ok", ev |-> a.ev]
      created(a, typed, m) ==
        IF m.res # "ok"
          THEN [pg |-> [a.pg EXCEPT !.pool.pages[a.frame] = typed], frame |-> NIL,
                metadata |-> NoMetadata, res |-> "err", ev |-> a.ev]
          ELSE counted(a, SetPagesCount(m.metadata, typed, 1))
      stamped(a, typed) == created(a, typed, NewMetadataPage(typed))
      appended(a) ==
        IF a.res # "ok"
          THEN [pg |-> a.pg, frame |-> NIL, metadata |-> NoMetadata,
                res |-> "err", ev |-> a.ev]
          ELSE stamped(a, SetPageType(a.pg.pool.pages[a.frame], PageTypeMetadata))
  IN appended(appendPageNoMetadata(pg, metadataPageId))

\* Pager.setPagesCount: a failure to fetch the metadata page is logged and
\* nothing is returned.
setPagesCount(pg, count) ==
  LET counted(m, s) ==
        [pg |-> [m.pg EXCEPT !.pool.pages[m.frame] = s.bp], ev |-> m.ev]
      fetched(m) ==
        IF m.res # "ok" THEN [pg |-> m.pg, ev |-> m.ev]
        ELSE counted(m, SetPagesCount(m.metadata, m.pg.pool.pages[m.frame], count))
  IN fetched(MetadataPage(pg))

\* Pager.PagesCount
PagesCount(pg) ==
  LET fetched(m) ==
        [pg |-> m.pg, count |-> IF m.res = "ok" THEN m.metadata.pagesCount ELSE 0,
         ev |-> m.ev]
  IN fetched(MetadataPage(pg))

\* Pager.AppendPage: the type is stamped on the frame appendPageNoMetadata
\* returned, after setPagesCount has fetched the metadata page again.
AppendPage(pg, pageType) ==
  LET counted(m, a, s) ==
        [pg |-> [s.pg EXCEPT !.pool.pages[a.frame] =
                   SetPageType(s.pg.pool.pages[a.frame], pageType)],
         frame |-> a.frame, id |-> m.metadata.pagesCount, res |-> "ok",
         ev |-> m.ev \o a.ev \o s.ev]
      appended(m, a) ==
        IF a.res # "ok"
          THEN [pg |-> a.pg, frame |-> NIL, id |-> m.metadata.pagesCount,
                res |-> "err", ev |-> m.ev \o a.ev]
          ELSE counted(m, a, setPagesCount(a.pg, m.metadata.pagesCount + 1))
      fetched(m) ==
        IF m.res # "ok"
          THEN [pg |-> m.pg, frame |-> NIL, id |-> 0, res |-> "err", ev |-> m.ev]
          ELSE appended(m, appendPageNoMetadata(m.pg, m.metadata.pagesCount))
  IN fetched(MetadataPage(pg))

\* The visit of Pager.Sync over the frames of the address map: every dirty
\* frame is written out.  The writes succeed and go to different blocks, so
\* the order of the visit does not show.
RECURSIVE SyncFrom(_, _)
SyncFrom(pg, ids) ==
  LET id == CHOOSE i \in ids : TRUE
      flushed(k, fl) ==
        SyncFrom([pool |-> [pg.pool EXCEPT !.pages[k] = fl.p], file |-> fl.file],
                 ids \ {id})
      visit(k) ==
        IF pg.pool.pages[k].isDirty
          THEN flushed(k, flushPageToDisk(pg.pool.pages[k], pg.file, TRUE))
          ELSE SyncFrom(pg, ids \ {id})
  IN IF ids = {} THEN pg ELSE visit(pg.pool.addresses[id])

\* Pager.Sync
Sync(pg) == SyncFrom(pg, DOMAIN pg.pool.addresses)

\* Pager.Close: Sync, then the file is closed.
Close(pg) == Sync(pg)

\* NewPager on a path where no file exists: an empty file and the metadata
\* page appended to it.
NewPager(capacity) ==
  appendMetadataPage([pool |-> newClockPagePool(capacity), file |-> <<>>])

\* NewPager on an existing file: the file as it is and a new pool.
LoadPager(capacity, file) == [pool |-> newClockPagePool(capacity), file |-> file]

(***************************************************************************)
(* Row pages (package page, RowPage).  A row page is [bp, schema,          *)
(* slotsCount, freeList]: the frame, and the allocator whose buffer is the *)
(* frame's data area.                                                      *)
(***************************************************************************)
\* The RowPage's allocator, its buffer read through bp.Data().
RowAllocator(rp) ==
  [buffer |-> Data(rp.bp), slotsCount |-> rp.slotsCount, freeList |-> rp.freeList]

\* The RowPage after its allocator became a.
RowWith(rp, a) ==
  [rp EXCEPT !.bp = WithData(rp.bp, a.buffer),
             !.slotsCount = a.slotsCount, !.freeList = a.freeList]

\* NewRowPage
NewRowPage(bp, schema) ==
  LET page(a) == [bp |-> bp, schema |-> schema,
                  slotsCount |-> a.slotsCount, freeList |-> a.freeList]
  IN page(NewSlotAllocator(Data(bp)))

\* RowPage.InsertRow
InsertRow(rp, items) ==
  LET written(al, itemsSize, put) ==
        [rp |-> RowWith(rp, [al.a EXCEPT !.buffer =
                               WriteAt(al.a.buffer, al.offset, put.buf)]),
         res |-> IF put.ok /\ put.n = itemsSize THEN "ok" ELSE "err",
         slot |-> IF put.ok /\ put.n = itemsSize THEN al.Index ELSE 0]
      allocated(al, itemsSize) ==
        IF al.res # "ok" THEN [rp |-> RowWith(rp, al.a), res |-> al.res, slot |-> 0]
        ELSE written(al, itemsSize,
               ItemsPutBinary(items, Slice(al.a.buffer, al.offset, al.size)))
      sized(itemsSize) == allocated(Allocate(RowAllocator(rp), itemsSize), itemsSize)
  IN sized(ItemsSize(items))

\* RowPage.DeleteRow
DeleteRow(rp, slot) ==
  LET deleted(d) == [rp |-> RowWith(rp, d.a), res |-> d.res]
  IN deleted(Deallocate(RowAllocator(rp), slot))

\* RowPage.UpdateRow
UpdateRow(rp, slot, items) ==
  LET written(b, offset, itemsSize, put) ==
        [rp |-> RowWith(rp, [b EXCEPT !.buffer = WriteAt(b.buffer, offset, put.buf)]),
         res |-> IF put.ok /\ put.n = itemsSize THEN "ok" ELSE "err"]
      reallocated(new, itemsSize) ==
        IF new.res # "ok"
          THEN [rp |-> RowWith(rp, new.a),
                res |-> IF new.res = "panic" THEN "panic" ELSE "err"]
        ELSE written(new.a, new.offset, itemsSize,
               ItemsPutBinary(items, Slice(new.a.buffer, new.offset, new.size)))
      deallocated(d, itemsSize) ==
        IF d.res # "ok" THEN [rp |-> RowWith(rp, d.a), res |-> d.res]
        ELSE reallocated(Allocate(d.a, itemsSize), itemsSize)
      found(a, allocation, itemsSize) ==
        IF allocation.res # "ok" THEN [rp |-> rp, res |-> allocation.res]
        ELSE IF itemsSize = allocation.size
          THEN written(a, allocation.offset, itemsSize,
                 ItemsPutBinary(items, Slice(a.buffer, allocation.offset,
                                             allocation.size)))
        ELSE deallocated(Deallocate(a, allocation.Index), itemsSize)
      update(a) == found(a, GetAllocation(a, slot), ItemsSize(items))
  IN update(RowAllocator(rp))

RECURSIVE itemsInBufferFrom(_, _, _, _)
\* The loop of RowPage.itemsInBuffer from column i on: the views of the
\* columns from i on.
itemsInBufferFrom(columns, buffer, i, offset) ==
  LET prepend(itemSize, rest) ==
        IF rest.res # "ok" THEN rest
        ELSE [res |-> "ok",
              items |-> <<Slice(buffer, offset, itemSize)>> \o rest.items]
      view(itemSize) ==
        IF offset + itemSize > Len(buffer) THEN [res |-> "err", items |-> <<>>]
        ELSE IF itemSize < 0 THEN [res |-> "panic", items |-> <<>>]
        ELSE prepend(itemSize,
               itemsInBufferFrom(columns, buffer, i + 1, offset + itemSize))
  IN IF i > Len(columns) THEN [res |-> "ok", items |-> <<>>]
     ELSE IF offset >= Len(buffer) THEN [res |-> "err", items |-> <<>>]
     ELSE view(ItemByteSize(columns[i], buffer, offset))

\* RowPage.itemsInBuffer: one view, the bytes of the item, per schema column.
itemsInBuffer(rp, buffer) == itemsInBufferFrom(rp.schema, buffer, 1, 0)

\* RowPage.FetchRow
FetchRow(rp, slot) ==
  LET views(a, allocation) ==
        IF allocation.res # "ok" THEN [res |-> allocation.res, items |-> <<>>]
        ELSE itemsInBuffer(rp, Slice(a.buffer, allocation.offset, allocation.size))
      fetch(a) == views(a, GetAllocation(a, slot))
  IN fetch(RowAllocator(rp))

(***************************************************************************)
(* The database and its tables (package ctrl).  A database is its pager; a *)
(* table context is [name, descriptor], the descriptor a copy made when    *)
(* Database.Table was called.                                              *)
(***************************************************************************)
\* The pager with frame k replaced.
WithFrame(pg, k, bp) == [pg EXCEPT !.pool.pages[k] = bp]

\* TableDescriptor.RowSchema
TableRowSchema(t) == [i \in 1..Len(t.Columns) |-> t.Columns[i].Type]

\* RowPage.CanFitItems: the row page after the call and the answer.
CanFitItems(rp, items) ==
  LET answered(c) == [rp |-> RowWith(rp, c.a), fits |-> c.fits, res |-> c.res]
  IN answered(CanFit(RowAllocator(rp), ItemsSize(items)))

\* RowPage.IterRows over SlotAllocator.VisitAllocations, from slot i at
\* offset: the rows yielded and their slots, in the order of the yields.  A
\* header that does not parse ends the visit, a row that does not decode is
\* skipped.
RECURSIVE IterRowsFrom(_, _, _, _)
IterRowsFrom(rp, a, i, offset) ==
  LET none(res) == [res |-> res, rows |-> <<>>, slots |-> <<>>]
      rest(r) == IterRowsFrom(rp, a, i + 1, offset + r.n)
      yielded(r, items) ==
        IF items.res = "panic" THEN none("panic")
        ELSE LET more(m) ==
                   IF m.res # "ok" THEN m
                   ELSE IF items.res # "ok" THEN m
                   ELSE [res |-> "ok", rows |-> <<items.items>> \o m.rows,
                         slots |-> <<i>> \o m.slots]
             IN more(rest(r))
      visit(r) ==
        IF ~r.ok THEN none("ok")
        ELSE IF r.h.status # slotStatusAllocated THEN rest(r)
        ELSE IF r.h.dataOffset + r.h.size > Len(a.buffer) THEN none("panic")
        ELSE yielded(r, itemsInBuffer(rp, Slice(a.buffer, r.h.dataOffset, r.h.size)))
  IN IF i >= SlotsAllocated(a) THEN none("ok")
     ELSE visit(slotHeaderParseBinary(a.buffer, offset))

\* RowPage.IterRows
IterRows(rp) == IterRowsFrom(rp, RowAllocator(rp), 0, allocatorHeaderSize)

\* Database.AddTable
DatabaseAddTable(pg, table) ==
  LET added(m, r) ==
        [pg |-> WithFrame(m.pg, m.frame, r.bp),
         res |-> IF r.ok THEN "ok" ELSE "err", why |-> r.why]
      loaded(m) ==
        IF m.res # "ok" THEN [pg |-> m.pg, res |-> "err", why |-> "metadata"]
        ELSE added(m, AddTable(m.metadata, m.pg.pool.pages[m.frame], table))
  IN loaded(MetadataPage(pg))

\* Database.Table
DatabaseTable(pg, name) ==
  LET none(m) == [pg |-> m.pg, res |-> "err", tc |-> [name |-> name, descriptor |-> NoTable]]
      found(m, index) ==
        IF index = 0 THEN none(m)
        ELSE [pg |-> m.pg, res |-> "ok",
              tc |-> [name |-> name, descriptor |-> m.metadata.tables[index]]]
      loaded(m) ==
        IF m.res # "ok" THEN none(m) ELSE found(m, findTableByName(m.metadata, name))
  IN loaded(MetadataPage(pg))

\* The loop of TableContext.insertIntoExisting from data page i on; res is
\* "none" for errNoSpaceInExistingPages.
RECURSIVE insertIntoExistingFrom(_, _, _, _)
insertIntoExistingFrom(pg, tc, values, i) ==
  LET none(p, res) == [pg |-> p, res |-> res, PageID |-> 0, SlotID |-> 0]
      inserted(f, r) ==
        IF r.res # "ok" THEN none(WithFrame(f.pg, f.frame, r.rp.bp),
                                  IF r.res = "panic" THEN "panic" ELSE "err")
        ELSE [pg |-> WithFrame(f.pg, f.frame, r.rp.bp), res |-> "ok",
              PageID |-> tc.descriptor.DataPages[i], SlotID |-> r.slot]
      asked(f, c) ==
        IF c.res = "panic" THEN none(WithFrame(f.pg, f.frame, c.rp.bp), "panic")
        ELSE IF c.fits THEN inserted(f, InsertRow(c.rp, values))
        ELSE insertIntoExistingFrom(WithFrame(f.pg, f.frame, c.rp.bp), tc, values, i + 1)
      paged(f, rp) == asked(f, CanFitItems(rp, values))
      fetched(f) ==
        IF f.res # "ok" THEN none(f.pg, "err")
        ELSE paged(f, NewRowPage(f.pg.pool.pages[f.frame], TableRowSchema(tc.descriptor)))
  IN IF i > Len(tc.descriptor.DataPages) THEN none(pg, "none")
     ELSE fetched(FetchPage(pg, tc.descriptor.DataPages[i]))

\* TableContext.insertIntoExisting
insertIntoExisting(pg, tc, values) == insertIntoExistingFrom(pg, tc, values, 1)

\* TableContext.insertIntoNewPage: the new page's id is read from the frame
\* AppendPage returned, after the row was written to it.
insertIntoNewPage(pg, tc, values) ==
  LET none(p, res) == [pg |-> p, res |-> res, PageID |-> 0, SlotID |-> 0]
      updated(m, r, id, u) ==
        IF ~u.ok THEN none(WithFrame(m.pg, m.frame, u.bp), "err")
        ELSE [pg |-> WithFrame(m.pg, m.frame, u.bp), res |-> "ok",
              PageID |-> id, SlotID |-> r.slot]
      loaded(m, r, id) ==
        IF m.res # "ok" THEN none(m.pg, "err")
        ELSE updated(m, r, id,
               UpdateTable(m.metadata, m.pg.pool.pages[m.frame],
                           [tc.descriptor EXCEPT !.DataPages = Append(@, id)]))
      written(p, r, id) == loaded(MetadataPage(p), r, id)
      inserted(a, r) ==
        IF r.res # "ok" THEN none(WithFrame(a.pg, a.frame, r.rp.bp),
                                  IF r.res = "panic" THEN "panic" ELSE "err")
        ELSE written(WithFrame(a.pg, a.frame, r.rp.bp), r, Id(r.rp.bp))
      paged(a, rp) == inserted(a, InsertRow(rp, values))
      appended(a) ==
        IF a.res # "ok" THEN none(a.pg, "err")
        ELSE paged(a, NewRowPage(a.pg.pool.pages[a.frame], TableRowSchema(tc.descriptor)))
  IN appended(AppendPage(pg, PageTypeRow))

\* TableContext.Insert
Insert(pg, tc, values) ==
  LET tried(r) == IF r.res = "none" THEN insertIntoNewPage(r.pg, tc, values) ELSE r
  IN IF Len(values) # Len(tc.descriptor.Columns)
       THEN [pg |-> pg, res |-> "err", PageID |-> 0, SlotID |-> 0]
       ELSE tried(insertIntoExisting(pg, tc, values))

\* The loop of TableContext.SelectAll from data page i on.
RECURSIVE SelectAllFrom(_, _, _, _)
SelectAllFrom(pg, tc, i, result) ==
  LET iterated(f, it) ==
        IF it.res # "ok" THEN [pg |-> f.pg, res |-> it.res, rows |-> <<>>]
        ELSE SelectAllFrom(f.pg, tc, i + 1, result \o it.rows)
      fetched(f) ==
        IF f.res # "ok" THEN [pg |-> f.pg, res |-> "err", rows |-> <<>>]
        ELSE iterated(f, IterRows(NewRowPage(f.pg.pool.pages[f.frame],
                                             TableRowSchema(tc.descriptor))))
  IN IF i > Len(tc.descriptor.DataPages) THEN [pg |-> pg, res |-> "ok", rows |-> result]
     ELSE fetched(FetchPage(pg, tc.descriptor.DataPages[i]))

\* TableContext.SelectAll
SelectAll(pg, tc) == SelectAllFrom(pg, tc, 1, <<>>)

(***************************************************************************)
(* State.                                                                  *)
(***************************************************************************)
VARIABLES
  alloc,     \* allocator machine: the SlotAllocator under test
  alast,     \* allocator machine: the last call and what it returned
  rowPage,   \* row page machine: the RowPage under test
  rowFile,   \* row page machine: the paging file
  rowLast,   \* row page machine: the last call and what it returned
  rowsLive,  \* row page machine: slot -> items, for every slot InsertRow
             \* returned that was not deleted or updated since
  pool,      \* pool and pager machines: the clockPagePool
  file,      \* pool and pager machines: the paging file
  plast,     \* pool and pager machines: the last call and what it returned
  evicted,   \* pager machine: page id -> the block the page had when it was
             \* evicted dirty, for the pages not brought back since
  handle,    \* database machine: the TableContext the caller holds
  history,   \* database machine: the rows inserted, and how
  threads,   \* machines with several threads: thread -> where it is in its
             \* call, its locals, and what it holds
  arg,       \* codec machines: the input drawn for the function under test
  ret        \* codec machines: what the function returned

allocVars == <<alloc, alast>>
rowVars == <<rowPage, rowFile, rowLast, rowsLive>>
pagerVars == <<pool, file, plast, evicted>>
dbVars == <<handle, history>>
threadVars == <<threads>>
codecVars == <<arg, ret>>
vars == <<allocVars, rowVars, pagerVars, dbVars, threadVars, codecVars>>

\* What a step of one machine leaves alone: the other machines.
allocOthers == <<rowVars, pagerVars, dbVars, threadVars, codecVars>>
rowOthers == <<allocVars, pagerVars, dbVars, threadVars, codecVars>>
pagerOthers == <<allocVars, rowVars, dbVars, threadVars, codecVars>>
dbOthers == <<allocVars, rowVars, evicted, threadVars, codecVars>>
threadOthers == <<allocVars, rowVars, dbVars, codecVars>>
codecOthers == <<allocVars, rowVars, pagerVars, dbVars, threadVars>>

\* The machines share one state; a machine that is not running stays idle.
AllocIdle == alloc = NewSlotAllocator(<<>>) /\ alast = [op |-> "none"]
RowIdle ==
  /\ rowPage = NewRowPage(NewBufferPage, <<>>) /\ rowFile = <<>>
  /\ rowLast = [op |-> "none"] /\ rowsLive = <<>>
PagerIdle ==
  /\ pool = newClockPagePool(0) /\ file = <<>>
  /\ plast = [op |-> "none"] /\ evicted = <<>>
DbIdle == handle = [res |-> "none"] /\ history = <<>>
ThreadsIdle == threads = <<>>
CodecIdle == arg = <<>> /\ ret = [op |-> "idle"]

(***************************************************************************)
(* The allocator machine: one SlotAllocator over a zeroed buffer of the    *)
(* length of a page's data area, driven by Allocate, Deallocate and a      *)
(* caller that writes into the buffers it was given.                       *)
(***************************************************************************)
\* Sizes the caller asks for: nothing, small payloads, and the largest size
\* an empty allocator accepts.
AllocSizes == {0, 8, 20, pageDataSize - allocatorHeaderSize}

\* The last call: what was asked, what came back (res, index, offset and len
\* of the buffer returned; fits, the answer of CanFit), and what the call
\* found: the Free slots that fit, the slot count, whether an Allocate would
\* succeed, the allocator before a Deallocate.  caveat tells that the slot of
\* highest index was freed at some time.
NoCall == [op |-> "none", size |-> 0, index |-> 0, res |-> "ok",
           offset |-> 0, len |-> 0, fit |-> {}, slotsBefore |-> 0,
           fits |-> FALSE, would |-> FALSE,
           before |-> NewSlotAllocator(<<>>), caveat |-> FALSE]

\* The Free slots of capacity >= size, read from the slot headers.
FreeSlotsFitting(a, size) ==
  LET fitting(headers) ==
        {i \in DOMAIN headers :
           headers[i].status = slotStatusFree /\ headers[i].size >= size}
  IN fitting(SlotHeaders(a))

AllocInit ==
  /\ alloc = NewSlotAllocator(Zeros(pageDataSize))
  /\ alast = NoCall
  /\ RowIdle /\ PagerIdle /\ DbIdle /\ ThreadsIdle /\ CodecIdle

AllocAllocate(size) ==
  /\ SlotsAllocated(alloc) < MaxSlots
  /\ LET returned(r) ==
           /\ alloc' = r.a
           /\ alast' = [NoCall EXCEPT !.op = "Allocate", !.size = size,
                                      !.index = r.Index, !.res = r.res,
                                      !.offset = r.offset, !.len = r.size,
                                      !.fit = FreeSlotsFitting(alloc, size),
                                      !.slotsBefore = SlotsAllocated(alloc),
                                      !.caveat = alast.caveat]
     IN returned(Allocate(alloc, size))
  /\ UNCHANGED allocOthers

AllocDeallocate(index) ==
  /\ LET returned(r) ==
           /\ alloc' = r.a
           /\ alast' = [NoCall EXCEPT !.op = "Deallocate", !.index = index,
                                      !.res = r.res,
                                      !.slotsBefore = SlotsAllocated(alloc),
                                      !.before = alloc,
                                      !.caveat = alast.caveat
                                         \/ (r.res = "ok"
                                              /\ index + 1 = SlotsAllocated(alloc))]
     IN returned(Deallocate(alloc, index))
  /\ UNCHANGED allocOthers

\* The caller asks whether a payload of this size fits.
AllocCanFit(size) ==
  /\ LET would(al) == al.res = "ok"
         returned(r) ==
           /\ alloc' = r.a
           /\ alast' = [NoCall EXCEPT !.op = "CanFit", !.size = size,
                                      !.res = r.res, !.fits = r.fits,
                                      !.would = would(Allocate(alloc, size)),
                                      !.fit = FreeSlotsFitting(alloc, size),
                                      !.slotsBefore = SlotsAllocated(alloc),
                                      !.caveat = alast.caveat]
     IN returned(CanFit(alloc, size))
  /\ UNCHANGED allocOthers

\* The caller fills the buffer Allocate has just returned to it.
AllocWrite(index) ==
  LET fill(g) ==
        /\ g.res = "ok"
        /\ g.size > 0
        /\ alloc' = [alloc EXCEPT !.buffer =
                       WriteAt(alloc.buffer, g.offset, Fill(g.size, index + 1))]
        /\ alast' = [NoCall EXCEPT !.op = "Write", !.index = index,
                                   !.slotsBefore = SlotsAllocated(alloc),
                                   !.caveat = alast.caveat]
  IN /\ alast.op = "Allocate" /\ alast.res = "ok" /\ alast.index = index
     /\ fill(GetAllocation(alloc, index))
     /\ UNCHANGED allocOthers

AllocNext ==
  \/ \E size \in AllocSizes : AllocAllocate(size)
  \/ \E index \in 0..MaxSlots : AllocDeallocate(index)
  \/ \E size \in AllocSizes : AllocCanFit(size)
  \/ \E index \in 0..(MaxSlots - 1) : AllocWrite(index)

SpecAlloc == AllocInit /\ [][AllocNext]_vars

(***************************************************************************)
(* The row page machine: one RowPage over the frame of page 1 of a paging  *)
(* file, driven by InsertRow, DeleteRow, UpdateRow and the flush that Sync *)
(* performs on a dirty frame.  A call that panics ends the run.            *)
(***************************************************************************)
RowSchema == <<ItemTypeInteger, ItemTypeString>>

\* The longest text whose row an empty page still accepts.
LongText == pageDataSize - allocatorHeaderSize - Int64ByteSize - VarCharHeaderSize

Rows ==
  { <<Int64(7), String(<<>>)>>, <<Int64(8), String(<<>>)>>,
    <<Int64(9), String(<<65, 66>>)>>, <<Int64(300), String(Fill(LongText, 67))>> }

NoRowCall == [op |-> "none", res |-> "ok", slot |-> 0]

RowInit ==
  /\ LET appended(new) ==
           /\ rowPage = NewRowPage(SetPageType(new.p, PageTypeRow), RowSchema)
           /\ rowFile = fileWriteAt(new.file, 1, new.p.pageBlock)
     IN appended(bind(NewBufferPage, 1, ZeroBlocks(1), TRUE))
  /\ rowLast = NoRowCall
  /\ rowsLive = <<>>
  /\ AllocIdle /\ PagerIdle /\ DbIdle /\ ThreadsIdle /\ CodecIdle

RowInsertRow(items) ==
  /\ rowLast.res # "panic"
  /\ SlotsAllocated(RowAllocator(rowPage)) < MaxSlots
  /\ LET returned(r) ==
           /\ rowPage' = r.rp
           /\ rowLast' = [op |-> "InsertRow", res |-> r.res, slot |-> r.slot]
           /\ rowsLive' = IF r.res = "ok" THEN SetNode(rowsLive, r.slot, items)
                          ELSE rowsLive
     IN returned(InsertRow(rowPage, items))
  /\ UNCHANGED <<rowFile, rowOthers>>

RowDeleteRow(slot) ==
  /\ rowLast.res # "panic"
  /\ LET returned(r) ==
           /\ rowPage' = r.rp
           /\ rowLast' = [op |-> "DeleteRow", res |-> r.res, slot |-> slot]
     IN returned(DeleteRow(rowPage, slot))
  /\ rowsLive' = Without(rowsLive, slot)
  /\ UNCHANGED <<rowFile, rowOthers>>

RowUpdateRow(slot, items) ==
  /\ rowLast.res # "panic"
  /\ SlotsAllocated(RowAllocator(rowPage)) < MaxSlots
  /\ LET held(g) == IF g.res = "ok" THEN g.size ELSE NIL
         returned(r) ==
           /\ rowPage' = r.rp
           /\ rowLast' = [op |-> "UpdateRow", res |-> r.res, slot |-> slot,
                          items |-> items,
                          oldSize |-> held(GetAllocation(RowAllocator(rowPage), slot))]
     IN returned(UpdateRow(rowPage, slot, items))
  /\ rowsLive' = Without(rowsLive, slot)
  /\ UNCHANGED <<rowFile, rowOthers>>

\* Pager.Sync on the frame: a dirty frame is flushed, a clean one is skipped.
RowSync ==
  /\ rowLast.res # "panic"
  /\ LET flushed(fl) ==
           /\ rowPage' = [rowPage EXCEPT !.bp = fl.p]
           /\ rowFile' = fl.file
     IN flushed(IF rowPage.bp.isDirty THEN flushPageToDisk(rowPage.bp, rowFile, TRUE)
                ELSE [p |-> rowPage.bp, file |-> rowFile])
  /\ rowLast' = [NoRowCall EXCEPT !.op = "Sync"]
  /\ UNCHANGED <<rowsLive, rowOthers>>

\* A caller ranges over RowPage.IterRows to its end.
RowIterRows ==
  /\ rowLast.res # "panic"
  /\ LET yielded(r) ==
           rowLast' = [op |-> "IterRows", res |-> r.res, slot |-> 0,
                       rows |-> r.rows, slots |-> r.slots]
     IN yielded(IterRows(rowPage))
  /\ UNCHANGED <<rowPage, rowFile, rowsLive, rowOthers>>

RowNext ==
  \/ \E items \in Rows : RowInsertRow(items)
  \/ \E slot \in 0..MaxSlots : RowDeleteRow(slot)
  \/ \E slot \in 0..MaxSlots, items \in Rows : RowUpdateRow(slot, items)
  \/ RowSync

SpecRowPage == RowInit /\ [][RowNext]_vars

\* Rows of one text column, the longest the one an empty page still accepts.
TextSchema == <<ItemTypeString>>

TextRows ==
  { <<String(<<>>)>>, <<String(<<65>>)>>,
    <<String(Fill(LongText + Int64ByteSize, 1))>> }

RowsOf(schema) == IF schema = TextSchema THEN TextRows ELSE Rows

\* The row page under InsertRow, DeleteRow and IterRows alone, the rows of
\* every insert being rows of the page's schema.
RowIterInit ==
  /\ \E schema \in {RowSchema, TextSchema} :
       LET appended(new) ==
             /\ rowPage = NewRowPage(SetPageType(new.p, PageTypeRow), schema)
             /\ rowFile = fileWriteAt(new.file, 1, new.p.pageBlock)
       IN appended(bind(NewBufferPage, 1, ZeroBlocks(1), TRUE))
  /\ rowLast = NoRowCall
  /\ rowsLive = <<>>
  /\ AllocIdle /\ PagerIdle /\ DbIdle /\ ThreadsIdle /\ CodecIdle

RowIterNext ==
  \/ \E items \in RowsOf(rowPage.schema) : RowInsertRow(items)
  \/ \E slot \in 0..MaxSlots : RowDeleteRow(slot)
  \/ RowIterRows

SpecRowIter == RowIterInit /\ [][RowIterNext]_vars

(***************************************************************************)
(* The inserters machine: two threads run TableContext.Insert, each once,  *)
(* on a table whose one data page holds a row and is resident.  Each call  *)
(* builds its own RowPage over the frame, with its own lock and its own    *)
(* allocator (slot count and free list read when it is built); the frame's *)
(* bytes are shared.  A thread is [pc, values, slotsCount, freeList,       *)
(* Index, offset, size, res].                                              *)
(***************************************************************************)
Inserters == 1..2

\* The rows that leave room for their slot header on an empty page.
InserterRows ==
  {items \in Rows : ItemsSize(items) < pageDataSize - allocatorHeaderSize}

InsertersInit ==
  /\ LET appended(new) ==
           /\ rowPage = InsertRow(NewRowPage(SetPageType(new.p, PageTypeRow), RowSchema),
                                  <<Int64(1), String(<<>>)>>).rp
           /\ rowFile = fileWriteAt(new.file, 1, new.p.pageBlock)
     IN appended(bind(NewBufferPage, 1, ZeroBlocks(1), TRUE))
  /\ rowLast = NoRowCall
  /\ rowsLive = <<>>
  /\ threads = [t \in Inserters |->
                  [pc |-> "idle", values |-> <<>>, slotsCount |-> 0,
                   freeList |-> newFreeList, Index |-> 0, offset |-> 0,
                   size |-> 0, res |-> ""]]
  /\ AllocIdle /\ PagerIdle /\ DbIdle /\ CodecIdle

\* The RowPage a thread built, over the frame as it is now.
InserterPage(t) ==
  [bp |-> rowPage.bp, schema |-> rowPage.schema,
   slotsCount |-> threads[t].slotsCount, freeList |-> threads[t].freeList]

\* insertIntoExisting up to its InsertRow: NewRowPage over the fetched frame
\* and CanFitItems, which the page answers with yes.
InserterCanFitItems(t, values) ==
  /\ threads[t].pc = "idle"
  /\ LET asked(c) ==
           /\ c.res = "ok" /\ c.fits
           /\ threads' = [threads EXCEPT ![t] =
                            [@ EXCEPT !.pc = "allocate", !.values = values,
                                      !.slotsCount = c.rp.slotsCount,
                                      !.freeList = c.rp.freeList]]
     IN asked(CanFitItems(NewRowPage(rowPage.bp, rowPage.schema), values))
  /\ UNCHANGED <<rowVars, allocVars, pagerVars, dbVars, codecVars>>

\* InsertRow, its Allocate: the slot header and the slot count are written.
InserterAllocate(t) ==
  /\ threads[t].pc = "allocate"
  /\ LET allocated(al) ==
           /\ rowPage' = [rowPage EXCEPT !.bp = WithData(rowPage.bp, al.a.buffer)]
           /\ threads' = [threads EXCEPT ![t] =
                            IF al.res = "ok"
                              THEN [@ EXCEPT !.pc = "put", !.Index = al.Index,
                                             !.offset = al.offset, !.size = al.size,
                                             !.slotsCount = al.a.slotsCount,
                                             !.freeList = al.a.freeList]
                              ELSE [@ EXCEPT !.pc = "done", !.res = al.res]]
     IN allocated(Allocate(RowAllocator(InserterPage(t)), ItemsSize(threads[t].values)))
  /\ UNCHANGED <<rowFile, rowLast, rowsLive, allocVars, pagerVars, dbVars, codecVars>>

\* InsertRow, its ItemsPutBinary into the buffer of the allocation, and the
\* return of the TID.
InserterPutBinary(t) ==
  /\ threads[t].pc = "put"
  /\ LET data == Data(rowPage.bp)
         written(put) ==
           /\ rowPage' = [rowPage EXCEPT !.bp =
                            WithData(rowPage.bp, WriteAt(data, threads[t].offset, put.buf))]
           /\ threads' = [threads EXCEPT ![t] =
                            [@ EXCEPT !.pc = "done",
                                      !.res = IF put.ok /\ put.n = threads[t].size
                                                THEN "ok" ELSE "err"]]
     IN written(ItemsPutBinary(threads[t].values,
                               Slice(data, threads[t].offset, threads[t].size)))
  /\ UNCHANGED <<rowFile, rowLast, rowsLive, allocVars, pagerVars, dbVars, codecVars>>

InsertersNext ==
  \/ \E t \in Inserters, values \in InserterRows : InserterCanFitItems(t, values)
  \/ \E t \in Inserters : InserterAllocate(t)
  \/ \E t \in Inserters : InserterPutBinary(t)

SpecInserters == InsertersInit /\ [][InsertersNext]_vars

(***************************************************************************)
(* The pool machine: one clockPagePool of PoolCapacity frames, driven by   *)
(* AllocatePage with a flush callback that succeeds or fails, GetPage, and *)
(* callers that pin, unpin and write the frames they were handed.          *)
(***************************************************************************)
PageIds == 0..MaxPageId

NoPoolCall ==
  [op |-> "none", id |-> 0, res |-> "ok", frame |-> NIL, victim |-> NIL,
   victimPins |-> 0, oldId |-> 0, wasInit |-> FALSE, wasDirty |-> FALSE,
   oldBlock |-> <<>>, why |-> "", probes |-> 0, unpinned |-> {},
   dirty |-> <<>>, fileBefore |-> <<>>]

\* The frames a caller may hold a pointer to: those handed out once.
Handed(ca) == {k \in 1..Len(ca.pages) : ca.pages[k].initializedBit}

\* The blocks of the frames that hold a page and are dirty, by frame.
DirtyBlocks(ca) ==
  [k \in {j \in 1..Len(ca.pages) :
             ca.pages[j].initializedBit /\ ca.pages[j].isDirty}
     |-> ca.pages[k].pageBlock]

\* The frames of the pool that no caller has pinned.
Unpinned(ca) == {k \in 1..Len(ca.pages) : ~IsPinned(ca.pages[k])}

PoolInit ==
  /\ pool = newClockPagePool(PoolCapacity)
  /\ file = <<>>
  /\ plast = NoPoolCall
  /\ evicted = <<>>
  /\ AllocIdle /\ RowIdle /\ DbIdle /\ ThreadsIdle /\ CodecIdle

\* What the last call records of an AllocatePage: the victim as it was when
\* the sweep chose it.
AllocatePageCall(id, r, before) ==
  IF r.victim = NIL
    THEN [NoPoolCall EXCEPT !.op = "AllocatePage", !.id = id, !.res = r.res,
                            !.why = r.why, !.probes = r.probes,
                            !.unpinned = Unpinned(before)]
    ELSE [op |-> "AllocatePage", id |-> id, res |-> r.res, frame |-> r.frame,
          victim |-> r.victim, why |-> r.why, probes |-> r.probes,
          unpinned |-> Unpinned(before), dirty |-> <<>>, fileBefore |-> <<>>,
          victimPins |-> before.pages[r.victim].pins,
          oldId |-> Id(before.pages[r.victim]),
          wasInit |-> before.pages[r.victim].initializedBit,
          wasDirty |-> before.pages[r.victim].isDirty,
          oldBlock |-> before.pages[r.victim].pageBlock]

PoolAllocatePage(id, flushed) ==
  /\ LET returned(r) ==
           /\ pool' = r.ca
           /\ file' = r.file
           /\ plast' = AllocatePageCall(id, r, pool)
     IN returned(AllocatePage(pool, id, file, flushed))
  /\ UNCHANGED <<evicted, pagerOthers>>

PoolGetPage(id) ==
  /\ LET returned(r) ==
           /\ pool' = r.ca
           /\ plast' = [NoPoolCall EXCEPT !.op = "GetPage", !.id = id,
                                          !.frame = r.frame,
                                          !.res = IF r.found THEN "ok" ELSE "err"]
     IN returned(GetPage(pool, id))
  /\ UNCHANGED <<file, evicted, pagerOthers>>

PoolPin(k) ==
  /\ k \in Handed(pool)
  /\ pool.pages[k].pins < MaxPins
  /\ pool' = [pool EXCEPT !.pages[k] = Pin(pool.pages[k])]
  /\ plast' = [NoPoolCall EXCEPT !.op = "Pin", !.frame = k]
  /\ UNCHANGED <<file, evicted, pagerOthers>>

PoolUnpin(k) ==
  /\ k \in Handed(pool)
  /\ pool' = [pool EXCEPT !.pages[k] = Unpin(pool.pages[k])]
  /\ plast' = [NoPoolCall EXCEPT !.op = "Unpin", !.frame = k]
  /\ UNCHANGED <<file, evicted, pagerOthers>>

\* The owner of the pool and the file syncs: Pager.Sync, its writes succeeding.
PoolSync ==
  /\ LET returned(pg) ==
           /\ pool' = pg.pool
           /\ file' = pg.file
     IN returned(Sync([pool |-> pool, file |-> file]))
  /\ plast' = [NoPoolCall EXCEPT !.op = "Sync", !.dirty = DirtyBlocks(pool),
                                 !.fileBefore = file]
  /\ UNCHANGED <<evicted, pagerOthers>>

\* A caller stamps a page type on a frame it holds, which marks it dirty.
PoolSetPageType(k, pt) ==
  /\ k \in Handed(pool)
  /\ pool' = [pool EXCEPT !.pages[k] = SetPageType(pool.pages[k], pt)]
  /\ plast' = [NoPoolCall EXCEPT !.op = "SetPageType", !.frame = k]
  /\ UNCHANGED <<file, evicted, pagerOthers>>

PoolNext ==
  \/ \E id \in PageIds, flushed \in BOOLEAN : PoolAllocatePage(id, flushed)
  \/ \E id \in PageIds : PoolGetPage(id)
  \/ \E k \in 1..PoolCapacity : PoolPin(k)
  \/ \E k \in 1..PoolCapacity : PoolUnpin(k)
  \/ \E k \in 1..PoolCapacity : PoolSetPageType(k, PageTypeRow)

SpecPool == PoolInit /\ [][PoolNext]_vars

\* The pool with flush callbacks that always succeed.
PoolFlushingNext ==
  \/ \E id \in PageIds : PoolAllocatePage(id, TRUE)
  \/ \E id \in PageIds : PoolGetPage(id)
  \/ \E k \in 1..PoolCapacity : PoolPin(k)
  \/ \E k \in 1..PoolCapacity : PoolUnpin(k)
  \/ \E k \in 1..PoolCapacity : PoolSetPageType(k, PageTypeRow)

SpecPoolFlushing == PoolInit /\ [][PoolFlushingNext]_vars

\* The pool with its owner's Sync and without pins.
PoolSyncNext ==
  \/ \E id \in PageIds, flushed \in BOOLEAN : PoolAllocatePage(id, flushed)
  \/ \E id \in PageIds : PoolGetPage(id)
  \/ \E k \in 1..PoolCapacity : PoolSetPageType(k, PageTypeRow)
  \/ PoolSync

SpecPoolSync == PoolInit /\ [][PoolSyncNext]_vars

(***************************************************************************)
(* The pin machine: one BufferPage, frame 1 of a pool of one frame, and    *)
(* Threads threads that call Pin and Unpin on it.  pins is an atomic       *)
(* counter: each Load, Add and Store of the code is one step, and the      *)
(* steps of different threads interleave.  A thread holds a pin from the   *)
(* return of its Pin to its call of Unpin; a thread that holds none calls  *)
(* Unpin only on a page whose pin count is 0.                              *)
(***************************************************************************)
ThreadIds == 1..Threads

PinInit ==
  /\ pool = newClockPagePool(1)
  /\ file = <<>> /\ plast = [op |-> "none"] /\ evicted = <<>>
  /\ threads = [t \in ThreadIds |-> [pc |-> "idle", currentPins |-> 0, held |-> 0]]
  /\ AllocIdle /\ RowIdle /\ DbIdle /\ CodecIdle

\* Pin: p.pins.Add(1)
PinAdd(t) ==
  /\ threads[t].pc = "idle" /\ threads[t].held < MaxPins
  /\ pool' = [pool EXCEPT !.pages[1].pins = @ + 1]
  /\ threads' = [threads EXCEPT ![t].pc = "Pin:setReferenceBit"]
  /\ UNCHANGED <<file, plast, evicted, threadOthers>>

\* Pin: p.setReferenceBit(), and the return.
PinSetReferenceBit(t) ==
  /\ threads[t].pc = "Pin:setReferenceBit"
  /\ pool' = [pool EXCEPT !.pages[1].referenceBit = TRUE]
  /\ threads' = [threads EXCEPT ![t].pc = "idle", ![t].held = @ + 1]
  /\ UNCHANGED <<file, plast, evicted, threadOthers>>

\* Unpin: currentPins := p.pins.Load(); a count of 0 is logged.
UnpinLoad(t) ==
  /\ threads[t].pc = "idle"
  /\ threads[t].held > 0 \/ pool.pages[1].pins = 0
  /\ threads' = [threads EXCEPT ![t].pc = "Unpin:Add",
                                ![t].currentPins = pool.pages[1].pins,
                                ![t].held = IF @ > 0 THEN @ - 1 ELSE 0]
  /\ UNCHANGED <<pagerVars, threadOthers>>

\* Unpin: currentPins = p.pins.Add(-1)
UnpinAdd(t) ==
  /\ threads[t].pc = "Unpin:Add"
  /\ pool' = [pool EXCEPT !.pages[1].pins = @ - 1]
  /\ threads' = [threads EXCEPT ![t].pc = "Unpin:Store",
                                ![t].currentPins = pool.pages[1].pins - 1]
  /\ UNCHANGED <<file, plast, evicted, threadOthers>>

\* Unpin: if currentPins < 0 { p.pins.Store(0) }
UnpinStore(t) ==
  /\ threads[t].pc = "Unpin:Store"
  /\ pool' = IF threads[t].currentPins < 0
               THEN [pool EXCEPT !.pages[1].pins = 0] ELSE pool
  /\ threads' = [threads EXCEPT ![t].pc = "Unpin:setReferenceBit"]
  /\ UNCHANGED <<file, plast, evicted, threadOthers>>

\* Unpin: p.setReferenceBit(), and the return.
UnpinSetReferenceBit(t) ==
  /\ threads[t].pc = "Unpin:setReferenceBit"
  /\ pool' = [pool EXCEPT !.pages[1].referenceBit = TRUE]
  /\ threads' = [threads EXCEPT ![t].pc = "idle"]
  /\ UNCHANGED <<file, plast, evicted, threadOthers>>

PinNext ==
  \/ \E t \in ThreadIds : PinAdd(t)
  \/ \E t \in ThreadIds : PinSetReferenceBit(t)
  \/ \E t \in ThreadIds : UnpinLoad(t)
  \/ \E t \in ThreadIds : UnpinAdd(t)
  \/ \E t \in ThreadIds : UnpinStore(t)
  \/ \E t \in ThreadIds : UnpinSetReferenceBit(t)

SpecPins == PinInit /\ [][PinNext]_vars

(***************************************************************************)
(* The fetch machine: two threads call Pager.FetchPage, each once, on a    *)
(* pager opened over a file whose blocks are valid Row pages and whose     *)
(* pool is empty.  The pool's lock makes GetPage and AllocatePage atomic;  *)
(* FetchPage holds no lock between them nor during its read.  A thread is  *)
(* [pc, n, frame, res, loaded, overlap]: loaded tells whether the frame    *)
(* held the file's block when the call returned it, overlap whether the    *)
(* call ran while another call for the same page was between its GetPage   *)
(* and its return.                                                         *)
(***************************************************************************)
Fetchers == 1..2

\* The block of a Row page as the pager leaves it in the file.
StoredBlock(id) ==
  SetPageType(bind(NewBufferPage, id, <<>>, TRUE).p, PageTypeRow).pageBlock

FetchInit ==
  /\ pool = newClockPagePool(PoolCapacity)
  /\ file = [i \in 1..(MaxPageId + 1) |-> StoredBlock(i - 1)]
  /\ plast = [op |-> "none"] /\ evicted = <<>>
  /\ threads = [t \in Fetchers |->
                  [pc |-> "idle", n |-> 0, frame |-> NIL, res |-> "",
                   loaded |-> FALSE, overlap |-> FALSE]]
  /\ AllocIdle /\ RowIdle /\ DbIdle /\ CodecIdle

\* The calls for page n that are between their GetPage and their return.
Fetching(n) ==
  {u \in Fetchers : threads[u].pc \in {"allocate", "read"} /\ threads[u].n = n}

\* FetchPage(n), its GetPage: a hit returns the frame as it is.
FetchGetPage(t, n) ==
  /\ threads[t].pc = "idle"
  /\ LET got(g) ==
           /\ pool' = g.ca
           /\ threads' =
                [u \in Fetchers |->
                   IF u = t
                     THEN IF g.found
                            THEN [pc |-> "done", n |-> n, frame |-> g.frame,
                                  res |-> "ok",
                                  loaded |-> g.ca.pages[g.frame].pageBlock = file[n + 1],
                                  overlap |-> Fetching(n) # {}]
                            ELSE [threads[t] EXCEPT !.pc = "allocate", !.n = n,
                                                    !.overlap = Fetching(n) # {}]
                     ELSE IF u \in Fetching(n)
                            THEN [threads[u] EXCEPT !.overlap = TRUE]
                     ELSE threads[u]]
     IN got(GetPage(pool, n))
  /\ UNCHANGED <<file, plast, evicted, threadOthers>>

\* FetchPage(n), its AllocatePage: an error ends the call.
FetchAllocatePage(t) ==
  /\ threads[t].pc = "allocate"
  /\ LET allocated(a) ==
           /\ pool' = a.ca
           /\ file' = a.file
           /\ threads' =
                [threads EXCEPT ![t] =
                   IF a.res = "ok" THEN [@ EXCEPT !.pc = "read", !.frame = a.frame]
                   ELSE [@ EXCEPT !.pc = "done", !.res = "err"]]
     IN allocated(AllocatePage(pool, threads[t].n, file, TRUE))
  /\ UNCHANGED <<plast, evicted, threadOthers>>

\* FetchPage(n), its ReadAt into the frame and validateVersion.
FetchReadAt(t) ==
  /\ threads[t].pc = "read"
  /\ LET n == threads[t].n
         k == threads[t].frame
         read == [pool EXCEPT !.pages[k].pageBlock = file[n + 1]]
     IN /\ pool' = read
        /\ threads' =
             [threads EXCEPT ![t] =
                IF validateVersion(read.pages[k])
                  THEN [@ EXCEPT !.pc = "done", !.res = "ok",
                                 !.loaded = read.pages[k].pageBlock = file[n + 1]]
                  ELSE [@ EXCEPT !.pc = "done", !.res = "err", !.frame = NIL]]
  /\ UNCHANGED <<file, plast, evicted, threadOthers>>

FetchNext ==
  \/ \E t \in Fetchers, n \in PageIds : FetchGetPage(t, n)
  \/ \E t \in Fetchers : FetchAllocatePage(t)
  \/ \E t \in Fetchers : FetchReadAt(t)

SpecFetch == FetchInit /\ [][FetchNext]_vars

(***************************************************************************)
(* The descriptor machine: a table descriptor and a buffer at least as     *)
(* long as its ByteSize are drawn, PutBinary writes the descriptor into    *)
(* the buffer and ParseBinary reads the buffer into a new descriptor.      *)
(***************************************************************************)
DescriptorNames == {<<>>, <<84>>, Fill(60, 97)}

DescriptorColumns ==
  { [Type |-> ItemTypeInteger, Name |-> <<>>],
    [Type |-> ItemTypeString, Name |-> Fill(60, 99)],
    [Type |-> ItemTypeBytes, Name |-> <<105, 100>>] }

\* Column lists of 0, 1 and 2 columns.
ColumnLists ==
  {<<>>} \cup {<<c>> : c \in DescriptorColumns}
         \cup {<<c, d>> : c \in DescriptorColumns, d \in DescriptorColumns}

\* Data page lists: none, one, and two with a large id.
DataPageLists == {<<>>, <<1>>, <<2, 2147483647>>}

\* Bytes of the buffer beyond the descriptor's ByteSize.
BufferSlack == {0, 3}

\* The inputs: a name, columns, data pages given as a list followed by a
\* count of further pages numbered from 1, and the slack of the buffer.
\* One input has more data pages than a uint16 counts.
DescriptorInputs ==
  {[Name |-> n, Columns |-> c, head |-> d, more |-> 0, slack |-> k] :
     n \in DescriptorNames, c \in ColumnLists, d \in DataPageLists,
     k \in BufferSlack}
  \cup {[Name |-> <<84>>, Columns |-> <<>>, head |-> <<>>, more |-> MaxUint16 + 1,
         slack |-> 0]}

\* The table descriptor an input stands for.
DescriptorOf(a) ==
  [Name |-> a.Name, Columns |-> a.Columns,
   DataPages |-> a.head \o [i \in 1..a.more |-> i]]

DescriptorInit ==
  /\ arg \in DescriptorInputs
  /\ ret = [op |-> "none"]
  /\ AllocIdle /\ RowIdle /\ PagerIdle /\ DbIdle /\ ThreadsIdle

\* t.PutBinary(buf) on a buffer of ByteSize and slack bytes, then ParseBinary
\* of what it wrote into a new descriptor.
DescriptorRoundTrip ==
  /\ ret.op = "none"
  /\ LET parsed(t, p, q) ==
           ret' = [op |-> "RoundTrip", size |-> TableDescriptorByteSize(t),
                   putOk |-> p.ok, written |-> p.off,
                   res |-> q.res, parsed |-> q.t, read |-> q.off]
         put(t, p) ==
           IF p.ok THEN parsed(t, p, TableDescriptorParseBinary(p.buf, 0))
           ELSE parsed(t, p, [t |-> NoTable, off |-> 0, res |-> "none"])
         drawn(t) ==
           put(t, TableDescriptorPutBinary(
                    t, Fill(TableDescriptorByteSize(t) + arg.slack, 255), 0))
     IN drawn(DescriptorOf(arg))
  /\ UNCHANGED <<arg, codecOthers>>

DescriptorNext == DescriptorRoundTrip

SpecDescriptor == DescriptorInit /\ [][DescriptorNext]_vars

(***************************************************************************)
(* The varchar machine: either some data and an output buffer are drawn    *)
(* and PutVarChar writes the data, or a source (a length prefix followed   *)
(* by some bytes, or fewer than four bytes) and the length of an output    *)
(* buffer are drawn and GetVarCharSize or ParseVarChar reads the source.   *)
(* The source is a slice with no capacity beyond its length.               *)
(***************************************************************************)
MaxDataLen == 6

\* Length prefixes of the sources: negative, valid, and longer than any source.
DeclaredLengths == {0 - 2147483647, 0 - 1, 0, 1, 3, MaxDataLen, MaxDataLen + 1, 2147483647}

VarCharInputs ==
  {[kind |-> "put", data |-> Fill(n, 7), room |-> m] :
     n \in 0..MaxDataLen, m \in 0..(MaxDataLen + VarCharHeaderSize + 1)}
  \cup {[kind |-> "parse",
          source |-> BigEndian(d, Int32ByteSize) \o Fill(k, 9), declared |-> d,
          outLen |-> o] :
            d \in DeclaredLengths, k \in 0..MaxDataLen, o \in {0, 2, MaxDataLen + 2}}
  \cup {[kind |-> "parse", source |-> Fill(k, 9), declared |-> 0, outLen |-> 2] :
            k \in 0..(Int32ByteSize - 1)}

VarCharInit ==
  /\ arg \in VarCharInputs
  /\ ret = [op |-> "none"]
  /\ AllocIdle /\ RowIdle /\ PagerIdle /\ DbIdle /\ ThreadsIdle

\* raw.PutVarChar(output, data) on an output of room bytes.
VarCharPut ==
  /\ ret.op = "none" /\ arg.kind = "put"
  /\ LET returned(r) ==
           ret' = [op |-> "PutVarChar", ok |-> r.ok, n |-> r.n, output |-> r.buf]
     IN returned(PutVarChar(Fill(arg.room, 255), 0, arg.data))
  /\ UNCHANGED <<arg, codecOthers>>

\* raw.ParseVarChar(source, output) on an output of outLen bytes.
VarCharParse ==
  /\ ret.op = "none" /\ arg.kind = "parse"
  /\ LET returned(r) ==
           ret' = [op |-> "ParseVarChar", res |-> r.res, n |-> r.n,
                   output |-> r.data \o Fill(arg.outLen - Len(r.data), 255)]
     IN returned(ParseVarChar(arg.source, 0, arg.outLen))
  /\ UNCHANGED <<arg, codecOthers>>

\* raw.GetVarCharSize(source)
VarCharGetSize ==
  /\ ret.op = "none" /\ arg.kind = "parse"
  /\ LET returned(r) ==
           ret' = [op |-> "GetVarCharSize", res |-> IF r.ok THEN "ok" ELSE "err",
                   n |-> r.v, output |-> Fill(arg.outLen, 255)]
     IN returned(GetVarCharSize(arg.source, 0))
  /\ UNCHANGED <<arg, codecOthers>>

VarCharNext ==
  \/ VarCharPut
  \/ VarCharParse
  \/ VarCharGetSize

SpecVarChar == VarCharInit /\ [][VarCharNext]_vars

(***************************************************************************)
(* TIDs (package ctrl, tid.go).  The numbers of this file are wider than   *)
(* the integers of the checker, so an unsigned integer is the sequence of  *)
(* its 16-bit limbs, the least significant first: a uint16 is one limb, a  *)
(* uint32 two, a uint64 four.  A TID is [PageID, SlotID].                  *)
(***************************************************************************)
LimbBits == 16
LimbMax == 65535

RECURSIVE BitOr(_, _, _)
\* a | b on the n low bits.
BitOr(a, b, n) ==
  IF n = 0 THEN 0
  ELSE (IF a % 2 = 1 \/ b % 2 = 1 THEN 1 ELSE 0) + 2 * BitOr(a \div 2, b \div 2, n - 1)

RECURSIVE BitAnd(_, _, _)
\* a & b on the n low bits.
BitAnd(a, b, n) ==
  IF n = 0 THEN 0
  ELSE (IF a % 2 = 1 /\ b % 2 = 1 THEN 1 ELSE 0) + 2 * BitAnd(a \div 2, b \div 2, n - 1)

\* uint64(x) of a narrower unsigned x.
Uint64(x) == x \o [i \in 1..(4 - Len(x)) |-> 0]

\* x << 16 and x >> 16 on a uint64: the limb shifted out is lost.
ShiftLeft16(x) == <<0, x[1], x[2], x[3]>>
ShiftRight16(x) == <<x[2], x[3], x[4], 0>>

\* x | y and x & y on uint64.
Or64(x, y) == [i \in 1..4 |-> BitOr(x[i], y[i], LimbBits)]
And64(x, y) == [i \in 1..4 |-> BitAnd(x[i], y[i], LimbBits)]

\* AsNumber as it would be if the shift were made in 32 bits.
AsNumberNarrow(t) ==
  LET shifted == <<0, t.PageID[1]>>
  IN Or64(Uint64(shifted), Uint64(t.SlotID))

\* TID.AsNumber
AsNumber(t) == Or64(ShiftLeft16(Uint64(t.PageID)), Uint64(t.SlotID))

\* TIDFromNumber
TIDFromNumber(num) ==
  [PageID |-> SubSeq(ShiftRight16(num), 1, 2),
   SlotID |-> SubSeq(And64(num, <<LimbMax, 0, 0, 0>>), 1, 1)]

(***************************************************************************)
(* The TID machine: two TIDs are drawn, AsNumber packs them and            *)
(* TIDFromNumber unpacks the first.                                        *)
(***************************************************************************)
Limbs == {0, 1, 32768, LimbMax}

TIDs == {[PageID |-> <<lo, hi>>, SlotID |-> <<s>>] : lo \in Limbs, hi \in Limbs, s \in Limbs}

TIDInit ==
  /\ arg \in {[t |-> t, u |-> u] : t \in TIDs, u \in TIDs}
  /\ ret = [op |-> "none"]
  /\ AllocIdle /\ RowIdle /\ PagerIdle /\ DbIdle /\ ThreadsIdle

TIDPack ==
  /\ ret.op = "none"
  /\ LET packed(n, m) ==
           ret' = [op |-> "AsNumber", t |-> n, u |-> m, back |-> TIDFromNumber(n)]
     IN packed(AsNumber(arg.t), AsNumber(arg.u))
  /\ UNCHANGED <<arg, codecOthers>>

TIDNext == TIDPack

SpecTID == TIDInit /\ [][TIDNext]_vars

(***************************************************************************)
(* The pager machine: a pager opened on a new file, with callers that      *)
(* fetch and append pages, sync, pin and unpin the frames they hold and    *)
(* stamp a page type on them.  SpecAppend is the same pager without pins   *)
(* and with fetches of the pages of the file only.                         *)
(***************************************************************************)
PageTypes == {PageTypeRow, PageTypeMetadata}

\* The frames a caller may hold: those bound to a page of the file.
Held(ca, f) == {ca.addresses[id] : id \in {i \in DOMAIN ca.addresses : i < Len(f)}}

\* The block of page id as a reader would find it: in its frame when it is
\* resident, in the file otherwise; empty when it is in neither.
CurrentBlock(ca, f, id) ==
  IF id \in DOMAIN ca.addresses THEN ca.pages[ca.addresses[id]].pageBlock
  ELSE IF id < Len(f) THEN f[id + 1]
  ELSE <<>>

\* The pages count a reader would find in page 0.
CurrentPagesCount(ca, f) ==
  ParseInt(CurrentBlock(ca, f, metadataPageId), pageHeaderSize, Int32ByteSize).v

\* The file has a complete block for page id whose version byte is the
\* current version.
ValidOnDisk(f, id) ==
  id < Len(f) /\ ParseInt(f[id + 1], pageVersionOffset, pageVersionSize).v = pageVersion

\* The evictions of one call noted: a page evicted dirty is remembered with
\* its block, a page bound to a frame is forgotten.
RECURSIVE NoteEvictions(_, _)
NoteEvictions(seen, ev) ==
  IF ev = <<>> THEN seen
  ELSE NoteEvictions(
         Without(IF Head(ev).wasInit /\ Head(ev).wasDirty
                   THEN SetNode(seen, Head(ev).oldId, Head(ev).oldBlock)
                   ELSE seen,
                 Head(ev).newId),
         Tail(ev))

PagerInit ==
  /\ LET opened(r) ==
           /\ pool = r.pg.pool
           /\ file = r.pg.file
           /\ plast = [op |-> "NewPager", res |-> r.res, frame |-> r.frame,
                       id |-> metadataPageId]
     IN opened(NewPager(PoolCapacity))
  /\ evicted = <<>>
  /\ AllocIdle /\ RowIdle /\ DbIdle /\ ThreadsIdle /\ CodecIdle

PagerFetchPage(id) ==
  /\ LET returned(r) ==
           /\ pool' = r.pg.pool
           /\ file' = r.pg.file
           /\ plast' = [op |-> "FetchPage", res |-> r.res, frame |-> r.frame,
                        id |-> id,
                        valid |-> ValidOnDisk(file, id),
                        wasEvicted |-> id \in DOMAIN evicted,
                        expected |-> IF id \in DOMAIN evicted THEN evicted[id]
                                     ELSE <<>>]
           /\ evicted' = NoteEvictions(evicted, r.ev)
     IN returned(FetchPage([pool |-> pool, file |-> file], id))
  /\ UNCHANGED pagerOthers

PagerAppendPage(pageType) ==
  /\ Len(file) <= MaxPageId
  /\ LET returned(r) ==
           /\ pool' = r.pg.pool
           /\ file' = r.pg.file
           /\ plast' = [op |-> "AppendPage", res |-> r.res, frame |-> r.frame,
                        id |-> r.id, pageType |-> pageType,
                        count |-> CurrentPagesCount(pool, file),
                        blocks |-> Len(file)]
           /\ evicted' = NoteEvictions(evicted, r.ev)
     IN returned(AppendPage([pool |-> pool, file |-> file], pageType))
  /\ UNCHANGED pagerOthers

PagerSync ==
  /\ LET returned(pg) ==
           /\ pool' = pg.pool
           /\ file' = pg.file
     IN returned(Sync([pool |-> pool, file |-> file]))
  /\ plast' = [op |-> "Sync", res |-> "ok", frame |-> NIL, id |-> 0,
               dirty |-> DirtyBlocks(pool), fileBefore |-> file]
  /\ UNCHANGED <<evicted, pagerOthers>>

PagerPin(k) ==
  /\ k \in Held(pool, file)
  /\ pool.pages[k].pins < MaxPins
  /\ pool' = [pool EXCEPT !.pages[k] = Pin(pool.pages[k])]
  /\ plast' = [op |-> "Pin", res |-> "ok", frame |-> k, id |-> Id(pool.pages[k])]
  /\ UNCHANGED <<file, evicted, pagerOthers>>

PagerUnpin(k) ==
  /\ k \in Held(pool, file)
  /\ pool' = [pool EXCEPT !.pages[k] = Unpin(pool.pages[k])]
  /\ plast' = [op |-> "Unpin", res |-> "ok", frame |-> k, id |-> Id(pool.pages[k])]
  /\ UNCHANGED <<file, evicted, pagerOthers>>

\* A caller stamps a page type on the frame of a page other than page 0.
PagerSetPageType(k, pageType) ==
  /\ k \in Held(pool, file)
  /\ Id(pool.pages[k]) # metadataPageId
  /\ pool' = [pool EXCEPT !.pages[k] = SetPageType(pool.pages[k], pageType)]
  /\ plast' = [op |-> "SetPageType", res |-> "ok", frame |-> k,
               id |-> Id(pool.pages[k])]
  /\ UNCHANGED <<file, evicted, pagerOthers>>

PagerNext ==
  \/ \E id \in PageIds : PagerFetchPage(id)
  \/ \E pageType \in PageTypes : PagerAppendPage(pageType)
  \/ PagerSync
  \/ \E k \in 1..PoolCapacity : PagerPin(k)
  \/ \E k \in 1..PoolCapacity : PagerUnpin(k)
  \/ \E k \in 1..PoolCapacity : PagerSetPageType(k, PageTypeRow)

SpecPager == PagerInit /\ [][PagerNext]_vars

\* A fetch of a page the file has.
AppendFetchPage(id) == id < Len(file) /\ PagerFetchPage(id)

AppendNext ==
  \/ \E id \in PageIds : AppendFetchPage(id)
  \/ \E pageType \in PageTypes : PagerAppendPage(pageType)
  \/ PagerSync
  \/ \E k \in 1..PoolCapacity : PagerSetPageType(k, PageTypeRow)

SpecAppend == PagerInit /\ [][AppendNext]_vars

(***************************************************************************)
(* The database machine: a database opened on a new file, one caller that  *)
(* adds tables, takes a table context, inserts and selects through it, and *)
(* closes and reopens the database.  history is [inserted, stale, clean]:  *)
(* the rows whose Insert succeeded, whether an Insert was made through a   *)
(* context that had been used before, and whether no Insert was made since *)
(* the database was last opened.                                           *)
(***************************************************************************)
TableColumns ==
  <<[Type |-> ItemTypeInteger, Name |-> <<97>>],
    [Type |-> ItemTypeString, Name |-> <<98>>]>>

\* A table, and a table whose name is one byte too long.
TableT == [Name |-> <<84>>, Columns |-> TableColumns, DataPages |-> <<>>]
TableLong ==
  [Name |-> Fill(maxTableNameLength + 1, 76), Columns |-> TableColumns,
   DataPages |-> <<>>]

\* The text of the rows inserted: two such rows fill a data page.
DbRowText == (pageDataSize \div 3) - Int64ByteSize - VarCharHeaderSize

DbRows ==
  { <<Int64(7), String(Fill(DbRowText, 65))>>,
    <<Int64(8), String(Fill(DbRowText, 66))>> }

\* A row whose serialization is longer than the data area of a page.
DbOversizedRow ==
  <<Int64(9), String(Fill(pageDataSize - Int64ByteSize - VarCharHeaderSize, 67))>>

\* What an empty data page holds: the size an allocator over an empty data
\* area accepts.
EmptyPageHolds == effectiveAllocatableSizeEmpty([buffer |-> Zeros(pageDataSize)])

\* Whether the row page of page id, as a reader finds it, takes a row of
\* these values: an allocation of the row's size succeeds on it.
PageTakes(ca, f, id, values) ==
  LET taken(al) == al.res = "ok"
      paged(rp) == taken(Allocate(RowAllocator(rp), ItemsSize(values)))
  IN paged(NewRowPage([NewBufferPage EXCEPT !.pageBlock = CurrentBlock(ca, f, id)],
                      RowSchema))

\* The rows a reader finds in the pages of these ids, by page id.
RowsOfPages(ca, f, ids) ==
  [id \in ids |->
     IterRows(NewRowPage([NewBufferPage EXCEPT !.pageBlock = CurrentBlock(ca, f, id)],
                         RowSchema)).rows]

NoHandle == [res |-> "none"]

\* The metadata a reader finds in a block of page 0.
MetadataOf(block) == NewMetadataPage([NewBufferPage EXCEPT !.pageBlock = block])

DbInit ==
  /\ LET opened(r) ==
           /\ pool = r.pg.pool
           /\ file = r.pg.file
           /\ plast = [op |-> "NewDatabaseFromPath", res |-> r.res]
     IN opened(NewPager(PoolCapacity))
  /\ evicted = <<>>
  /\ handle = NoHandle
  /\ history = [inserted |-> <<>>, stale |-> FALSE, clean |-> TRUE]
  /\ AllocIdle /\ RowIdle /\ ThreadsIdle /\ CodecIdle

DbAddTable(table) ==
  /\ plast.res # "panic"
  /\ LET returned(r) ==
           /\ pool' = r.pg.pool
           /\ file' = r.pg.file
           /\ plast' = [op |-> "AddTable", res |-> r.res, why |-> r.why,
                        name |-> table.Name,
                        blockBefore |-> CurrentBlock(pool, file, metadataPageId)]
     IN returned(DatabaseAddTable([pool |-> pool, file |-> file], table))
  /\ UNCHANGED <<handle, history, dbOthers>>

DbTable(name) ==
  /\ plast.res # "panic"
  /\ LET returned(r) ==
           /\ pool' = r.pg.pool
           /\ file' = r.pg.file
           /\ handle' = IF r.res = "ok" THEN [res |-> "ok", tc |-> r.tc, used |-> FALSE]
                        ELSE NoHandle
           /\ plast' = [op |-> "Table", res |-> r.res, name |-> name]
     IN returned(DatabaseTable([pool |-> pool, file |-> file], name))
  /\ UNCHANGED <<history, dbOthers>>

TableInsert(values) ==
  /\ plast.res # "panic"
  /\ handle.res = "ok"
  /\ Len(history.inserted) < MaxInserts
  /\ Len(file) <= MaxPageId
  /\ LET returned(r) ==
           /\ pool' = r.pg.pool
           /\ file' = r.pg.file
           /\ plast' = [op |-> "Insert", res |-> r.res, PageID |-> r.PageID,
                        SlotID |-> r.SlotID, values |-> values,
                        listed |-> handle.tc.descriptor.DataPages,
                        takes |-> [i \in DOMAIN handle.tc.descriptor.DataPages |->
                                     PageTakes(pool, file,
                                               handle.tc.descriptor.DataPages[i],
                                               values)],
                        blockBefore |-> CurrentBlock(pool, file, metadataPageId),
                        blocks |-> Len(file),
                        rowsBefore |-> RowsOfPages(pool, file, 1..(Len(file) - 1))]
           /\ history' = [inserted |-> IF r.res = "ok"
                                         THEN Append(history.inserted, values)
                                         ELSE history.inserted,
                          stale |-> history.stale \/ handle.used,
                          clean |-> FALSE]
     IN returned(Insert([pool |-> pool, file |-> file], handle.tc, values))
  /\ handle' = [handle EXCEPT !.used = TRUE]
  /\ UNCHANGED dbOthers

TableSelectAll ==
  /\ plast.res # "panic"
  /\ handle.res = "ok"
  /\ LET returned(r) ==
           /\ pool' = r.pg.pool
           /\ file' = r.pg.file
           /\ plast' = [op |-> "SelectAll", res |-> r.res, rows |-> r.rows]
     IN returned(SelectAll([pool |-> pool, file |-> file], handle.tc))
  /\ UNCHANGED <<handle, history, dbOthers>>

\* Database.Close, then NewDatabaseFromPath on the same file: the contexts
\* of the closed database are gone.
DbReopen ==
  /\ plast.res # "panic"
  /\ LET reopened(pg) ==
           /\ pool' = newClockPagePool(PoolCapacity)
           /\ file' = pg.file
           /\ plast' = [op |-> "Reopen", res |-> "ok",
                        before |-> MetadataOf(CurrentBlock(pool, file, metadataPageId)),
                        after |-> MetadataOf(CurrentBlock(newClockPagePool(PoolCapacity),
                                                          pg.file, metadataPageId))]
     IN reopened(Close([pool |-> pool, file |-> file]))
  /\ handle' = NoHandle
  /\ history' = [history EXCEPT !.clean = TRUE]
  /\ UNCHANGED dbOthers

DbNext ==
  \/ \E table \in {TableT, TableLong} : DbAddTable(table)
  \/ DbTable(TableT.Name)
  \/ \E values \in DbRows \cup {DbOversizedRow} : TableInsert(values)
  \/ TableSelectAll
  \/ DbReopen

SpecDb == DbInit /\ [][DbNext]_vars

\* The database machine with one caller that adds tables, inserts one kind of
\* row through fresh or used contexts, and reopens the database.
CatalogInsert == TableInsert(<<Int64(7), String(Fill(DbRowText, 65))>>)

CatalogNext ==
  \/ \E table \in {TableT, TableLong} : DbAddTable(table)
  \/ DbTable(TableT.Name)
  \/ CatalogInsert
  \/ DbReopen

SpecCatalog == DbInit /\ [][CatalogNext]_vars

(***************************************************************************)
(* Claims about the allocator machine.                                     *)
(***************************************************************************)
\* The Free slots of least capacity among those recorded as fitting.
SmallestFitting(call, a) ==
  {i \in call.fit : \A j \in call.fit : SlotHeaders(a)[i].size <= SlotHeaders(a)[j].size}

\* C3: whenever a Free slot of capacity >= size exists, Allocate(size) returns
\* the index of the smallest such slot, marks it Allocated, takes it off the
\* free list and leaves slots_allocated unchanged.
C3_AllocateReusesSmallestFreeSlot ==
  (alast.op = "Allocate" /\ alast.fit # {}) =>
     /\ alast.res = "ok"
     /\ alast.index \in SmallestFitting(alast, alloc)
     /\ SlotHeaders(alloc)[alast.index].status = slotStatusAllocated
     /\ alast.index \notin alloc.freeList.index
     /\ SlotsAllocated(alloc) = alast.slotsBefore

\* C4: the slot-header array never overlaps a payload: with k slots,
\* 2 + 9*k <= data_offset(i) for every slot i.
C4_HeadersBelowPayloads ==
  \A i \in DOMAIN SlotHeaders(alloc) :
     slotHeaderOffset(SlotsAllocated(alloc)) <= SlotHeaders(alloc)[i].dataOffset

\* The slots of an allocator whose header has this status.
SlotsWithStatus(a, status) ==
  {i \in DOMAIN SlotHeaders(a) : SlotHeaders(a)[i].status = status}

RECURSIVE SumSizes(_, _)
\* The sizes of these slots, summed.
SumSizes(headers, slots) ==
  IF slots = {} THEN 0
  ELSE LET i == CHOOSE j \in slots : TRUE
       IN headers[i].size + SumSizes(headers, slots \ {i})

\* The largest of a number and the sizes of these slots.
LargestSize(headers, slots, least) ==
  IF \E i \in slots : headers[i].size > least
    THEN CHOOSE v \in {headers[i].size : i \in slots} :
           \A i \in slots : headers[i].size <= v
    ELSE least

\* The tail free region: what a new slot carved at the tail may take.
TailRegion(a) ==
  IF SlotsAllocated(a) = 0 THEN effectiveAllocatableSizeEmpty(a)
  ELSE effectiveAllocatableSizeFrom(SlotsAllocated(a) - 1,
                                    SlotHeaders(a)[SlotsAllocated(a) - 1])

\* C14: CanFit(size) answers true exactly when an Allocate(size) made in its
\* place would succeed, in every state the allocator reaches, the empty
\* allocator and states with Free slots included.
C14_CanFitAgreesWithAllocate ==
  alast.op = "CanFit" => (alast.fits <=> alast.would)

C16_FreeBytesCountsFreeSlots ==
  /\ FreeBytes(alloc).v =
       TailRegion(alloc)
         + SumSizes(SlotHeaders(alloc), SlotsWithStatus(alloc, slotStatusFree))
  /\ LargestAllocatableSize(alloc).v =
       LargestSize(SlotHeaders(alloc), SlotsWithStatus(alloc, slotStatusFree),
                   TailRegion(alloc))
  /\ (alast.op = "Deallocate" /\ alast.res = "ok"
        /\ alast.index + 1 < alast.slotsBefore) =>
       FreeBytes(alloc).v =
         FreeBytes(alast.before).v + SlotHeaders(alast.before)[alast.index].size

\* C17: as long as the slot of highest index was never freed, the sizes of
\* the Allocated slots, FreeBytes() and the 2 + 9 * slots_allocated bytes of
\* the headers add up to the length of the buffer.
C17_BytesAddUpToBufferLength ==
  ~alast.caveat =>
     SumSizes(SlotHeaders(alloc), SlotsWithStatus(alloc, slotStatusAllocated))
       + FreeBytes(alloc).v
       + allocatorHeaderSize + SlotsAllocated(alloc) * allocatorSlotHeaderSize
     = Len(alloc.buffer)

\* C18: Deallocate of an Allocated slot succeeds, sets the slot's status to
\* Free, keeps its data_offset and size, zeroes its payload and changes no
\* other byte, leaves slots_allocated as it was and adds one free entry of
\* the slot's size under its index; Deallocate of an index out of range or of
\* a Free slot returns an error and leaves the buffer and the free list as
\* they were.
C18_DeallocateFreesOneSlot ==
  LET before == alast.before
      old == SlotHeaders(before)[alast.index]
      now == SlotHeaders(alloc)[alast.index]
      inPayload(o) == old.dataOffset <= o /\ o < old.dataOffset + old.size
      wasAllocated ==
        /\ alast.index < SlotsAllocated(before)
        /\ old.status = slotStatusAllocated
  IN alast.op = "Deallocate" =>
       IF wasAllocated
         THEN /\ alast.res = "ok"
              /\ now = [old EXCEPT !.status = slotStatusFree]
              /\ SlotsAllocated(alloc) = SlotsAllocated(before)
              /\ \A o \in 0..(Len(alloc.buffer) - 1) :
                    IF inPayload(o) THEN alloc.buffer[o + 1] = 0
                    ELSE \/ o = slotHeaderOffset(alast.index) + 2 * Int32ByteSize
                         \/ alloc.buffer[o + 1] = before.buffer[o + 1]
              /\ alloc.freeList.index = before.freeList.index \cup {alast.index}
              /\ alloc.freeList.node[alast.index].capacity = old.size
         ELSE /\ alast.res = "err"
              /\ alloc.buffer = before.buffer
              /\ alloc.freeList = before.freeList

\* The free list of an allocator holds one entry for every Free slot, with
\* the slot's size, its map has the Free slots as keys, and the capacities
\* met from the head on never decrease.
FreeListMatches(a) ==
  LET matches(refs, free) ==
        /\ Len(refs) = Cardinality(free)
        /\ {refs[i].index : i \in DOMAIN refs} = free
        /\ \A i \in DOMAIN refs :
              refs[i].capacity = SlotHeaders(a)[refs[i].index].size
        /\ a.freeList.index = free
        /\ \A i \in DOMAIN refs : \A j \in DOMAIN refs :
              i < j => refs[i].capacity <= refs[j].capacity
  IN matches(freeListVisit(a.freeList, a.freeList.head),
             SlotsWithStatus(a, slotStatusFree))

\* C20: in every state the allocator reaches, and in the allocator that
\* NewSlotAllocator rebuilds from its buffer, the list from the head has one
\* entry per Free slot with that slot's size, the index map has the Free
\* slots as keys, and the capacities are met in non-decreasing order.
C20_FreeListHoldsFreeSlots ==
  /\ FreeListMatches(alloc)
  /\ FreeListMatches(NewSlotAllocator(alloc.buffer))

(***************************************************************************)
(* Claims about the row page machine.                                      *)
(***************************************************************************)
\* C2: after every successful RowPage.InsertRow, UpdateRow or DeleteRow the
\* dirty bit of the underlying BufferPage is set.
C2_RowMutationMarksDirty ==
  (rowLast.op \in {"InsertRow", "UpdateRow", "DeleteRow"} /\ rowLast.res = "ok")
     => rowPage.bp.isDirty

\* The serialization of a row: item.ItemsPutBinary into a buffer of its size.
Serialize(items) == ItemsPutBinary(items, Zeros(ItemsSize(items))).buf

RECURSIVE Flatten(_)
\* The bytes of a sequence of item views, in order.
Flatten(views) ==
  IF Len(views) = 0 THEN <<>> ELSE views[1] \o Flatten(SubSeq(views, 2, Len(views)))

\* C5: for every slot InsertRow returned and that was not deleted or updated
\* since, FetchRow returns one view per schema column, and the bytes of the
\* views are the serialization of the inserted items.
C5_FetchRowReturnsInsertedBytes ==
  LET same(f, items) ==
        /\ f.res = "ok"
        /\ Len(f.items) = Len(rowPage.schema)
        /\ Flatten(f.items) = Serialize(items)
  IN \A slot \in DOMAIN rowsLive : same(FetchRow(rowPage, slot), rowsLive[slot])

\* C19: after a successful UpdateRow(slot, items) whose items take no more
\* bytes than the payload the slot held, the row is still addressed by slot:
\* FetchRow(slot) returns the new items.
C19_UpdateKeepsSlotIndex ==
  LET same(f) == f.res = "ok" /\ Flatten(f.items) = Serialize(rowLast.items)
  IN (rowLast.op = "UpdateRow" /\ rowLast.res = "ok"
        /\ ItemsSize(rowLast.items) <= rowLast.oldSize) =>
       same(FetchRow(rowPage, rowLast.slot))

\* C38: CanFit is a pure query: whatever it returns, the slot headers, the
\* slot count, the payload bytes and the free list are the same before and
\* after the call.
C38_CanFitChangesNothing ==
  [][alast'.op = "CanFit" =>
       /\ alloc'.buffer = alloc.buffer
       /\ SlotsAllocated(alloc') = SlotsAllocated(alloc)
       /\ alloc'.freeList = alloc.freeList]_vars

\* A CanFit was answered while a slot was Free, for a size the Free slot
\* holds.
C38_Witness ==
  /\ alast.op = "CanFit" /\ alast.res = "ok"
  /\ alast.fit # {}

\* C39: in every reachable allocator state the payload byte ranges
\* [data_offset(i), data_offset(i) + size(i)) of two distinct slots are
\* disjoint, and the data_offset and size of a slot never change once its
\* header has been created.
C39_PayloadsDisjointAndFixed ==
  /\ [](\A i, j \in DOMAIN SlotHeaders(alloc) :
          i # j =>
            \/ SlotHeaders(alloc)[i].dataOffset + SlotHeaders(alloc)[i].size
                  <= SlotHeaders(alloc)[j].dataOffset
            \/ SlotHeaders(alloc)[j].dataOffset + SlotHeaders(alloc)[j].size
                  <= SlotHeaders(alloc)[i].dataOffset)
  /\ [][\A i \in DOMAIN SlotHeaders(alloc) :
           /\ i \in DOMAIN SlotHeaders(alloc')
           /\ SlotHeaders(alloc')[i].dataOffset = SlotHeaders(alloc)[i].dataOffset
           /\ SlotHeaders(alloc')[i].size = SlotHeaders(alloc)[i].size]_vars

\* C30: in every reachable allocator state, data_offset(i) + size(i) <= L
\* for every slot i, Allocated or Free, L being the length of the buffer.
C30_PayloadsEndInsideBuffer ==
  \A i \in DOMAIN SlotHeaders(alloc) :
     SlotHeaders(alloc)[i].dataOffset + SlotHeaders(alloc)[i].size <= Len(alloc.buffer)

\* C37: two Insert calls running concurrently on one table return two
\* distinct TIDs, and afterwards SelectAll returns both rows with their own
\* values.
C37_ConcurrentInsertsKeepBothRows ==
  LET all == IterRows(NewRowPage(rowPage.bp, rowPage.schema))
      returned(t) ==
        \E k \in DOMAIN all.slots :
           /\ all.slots[k] = threads[t].Index
           /\ Flatten(all.rows[k]) = Serialize(threads[t].values)
  IN \A t, u \in DOMAIN threads :
       (t # u /\ threads[t].pc = "done" /\ threads[u].pc = "done") =>
          /\ threads[t].res = "ok" /\ threads[u].res = "ok"
          /\ threads[t].Index # threads[u].Index
          /\ all.res = "ok"
          /\ returned(t) /\ returned(u)

\* The views are one per column of the schema, each of the length its type
\* gives it, and they are the bytes of the payload from its start on.
ViewsOf(schema, views, payload) ==
  /\ Len(views) = Len(schema)
  /\ \A k \in DOMAIN views :
       IF schema[k] = ItemTypeInteger THEN Len(views[k]) = Int64ByteSize
       ELSE /\ Len(views[k]) >= VarCharHeaderSize
            /\ Len(views[k]) =
                 VarCharHeaderSize + BEValue(SubSeq(views[k], 1, VarCharHeaderSize))
  /\ Len(Flatten(views)) <= Len(payload)
  /\ Flatten(views) = SubSeq(payload, 1, Len(Flatten(views)))

\* C29: after any sequence of InsertRow and DeleteRow, IterRows yields
\* exactly the slots whose status is Allocated, in strictly ascending order
\* of slot index, each with one view per column of the schema, typed per the
\* schema, whose bytes lie inside the slot's payload.
C29_IterRowsYieldsAllocatedSlots ==
  rowLast.op = "IterRows" =>
    LET a == RowAllocator(rowPage)
        headers == SlotHeaders(a)
    IN /\ rowLast.res = "ok"
       /\ {rowLast.slots[k] : k \in DOMAIN rowLast.slots}
            = SlotsWithStatus(a, slotStatusAllocated)
       /\ \A k \in DOMAIN rowLast.slots :
            k > 1 => rowLast.slots[k - 1] < rowLast.slots[k]
       /\ \A k \in DOMAIN rowLast.slots :
            ViewsOf(rowPage.schema, rowLast.rows[k],
                    Slice(a.buffer, headers[rowLast.slots[k]].dataOffset,
                          headers[rowLast.slots[k]].size))

(***************************************************************************)
(* Claims about the pool machine.                                          *)
(***************************************************************************)
\* C6: the frame AllocatePage chooses as eviction victim has pin count 0 when
\* it is chosen, and after a successful AllocatePage(id) the old id of the
\* evicted page is absent from the address map while id maps to the rebound
\* frame.
C6_VictimUnpinnedAndRemapped ==
  (plast.op = "AllocatePage" /\ plast.victim # NIL) =>
     /\ plast.victimPins = 0
     /\ plast.res = "ok" =>
          /\ plast.wasInit => plast.oldId \notin DOMAIN pool.addresses
          /\ plast.id \in DOMAIN pool.addresses
          /\ pool.addresses[plast.id] = plast.victim
          /\ Id(pool.pages[plast.victim]) = plast.id

\* C21 as stated: AllocatePage of an id that is not resident succeeds, within
\* 2*C probes of the hand, whenever one of the C frames is unpinned, and it
\* fails with the eviction error only when every frame is pinned.
C21_AllocatePageSucceedsUnlessAllPinned ==
  (plast.op = "AllocatePage" /\ plast.why # "already allocated") =>
     /\ plast.unpinned # {} =>
          (plast.res = "ok" /\ plast.probes <= 2 * PoolCapacity)
     /\ plast.why = "unable to evict" => plast.unpinned = {}

\* C21, amended: when one of the C frames is unpinned, the sweep of an
\* AllocatePage of an id that is not resident chooses an unpinned frame
\* within 2*C probes, and the call succeeds unless the victim was dirty and
\* its flush callback failed; the call fails with the eviction error only
\* when every frame is pinned, and then after exactly 2*C probes.
C21_SweepFindsUnpinnedFrame ==
  (plast.op = "AllocatePage" /\ plast.why # "already allocated") =>
     /\ plast.unpinned # {} =>
          /\ plast.victim \in plast.unpinned
          /\ plast.probes <= 2 * PoolCapacity
          /\ plast.res = "ok" \/ (plast.why = "flush" /\ plast.wasDirty)
     /\ plast.why = "unable to evict" <=> plast.unpinned = {}
     /\ plast.unpinned = {} => (plast.res = "err" /\ plast.probes = 2 * PoolCapacity)

\* An AllocatePage succeeded on its last probe, with a frame pinned: the one
\* unpinned frame had its reference bit set and was reached a second time.
C21_Witness ==
  /\ plast.op = "AllocatePage" /\ plast.res = "ok"
  /\ plast.probes = 2 * PoolCapacity
  /\ plast.unpinned # {} /\ plast.unpinned # 1..PoolCapacity

\* The frame under the hand at the j-th probe of a sweep that starts with the
\* hand of ca.
ProbedFrame(ca, j) == ((ca.hand + j - 1) % Len(ca.pages)) + 1

AddressesConsistent(ca) ==
  /\ Cardinality(DOMAIN ca.addresses) <= Len(ca.pages)
  /\ \A a, b \in DOMAIN ca.addresses :
       a # b => ca.addresses[a] # ca.addresses[b]
  /\ \A id \in DOMAIN ca.addresses :
       /\ ca.addresses[id] \in 1..Len(ca.pages)
       /\ Id(ca.pages[ca.addresses[id]]) = id
  /\ \A k \in 1..Len(ca.pages) :
       ca.pages[k].initializedBit =>
         \E id \in DOMAIN ca.addresses : ca.addresses[id] = k

\* C32: in every state reachable by AllocatePage and GetPage calls whose
\* flush callbacks succeed, the address map has at most C entries, maps
\* distinct page ids to distinct frames, every mapped frame's header id equals
\* its key and every initialized frame is mapped; and AllocatePage of an id
\* that is already mapped fails without changing the map, any frame, or the
\* hand.
C32_AddressMapConsistent ==
  /\ []AddressesConsistent(pool)
  /\ [][\A id \in DOMAIN pool.addresses, flushed \in BOOLEAN :
           /\ AllocatePage(pool, id, file, flushed).res = "err"
           /\ AllocatePage(pool, id, file, flushed).ca = pool
           /\ (plast'.op = "AllocatePage" /\ plast'.id = id) =>
                (plast'.res = "err" /\ pool' = pool /\ file' = file)]_vars

\* An AllocatePage of a resident id was refused on a full address map, after
\* the hand had moved.
C32_Witness ==
  /\ plast.op = "AllocatePage" /\ plast.why = "already allocated"
  /\ Cardinality(DOMAIN pool.addresses) = PoolCapacity
  /\ pool.hand # 0

\* C33: if the flush callback fails while AllocatePage is evicting a dirty
\* victim, AllocatePage returns the error and the victim stays resident: its
\* old id is still in the address map, its content and dirty bit are intact,
\* a later Sync still writes it, and the requested id is not mapped.
C33_FailedFlushKeepsVictimResident ==
  (plast.op = "AllocatePage" /\ plast.why = "flush") =>
     LET synced == Sync([pool |-> pool, file |-> file])
     IN /\ plast.res = "err"
        /\ plast.id \notin DOMAIN pool.addresses
        /\ pool.pages[plast.victim].pageBlock = plast.oldBlock
        /\ pool.pages[plast.victim].isDirty
        /\ plast.oldId \in DOMAIN pool.addresses
        /\ pool.addresses[plast.oldId] = plast.victim
        /\ plast.oldId < Len(synced.file)
        /\ synced.file[plast.oldId + 1] = plast.oldBlock

\* C36: when two threads call FetchPage(n) concurrently for the same page n
\* that is not resident (its block valid, an unpinned frame available), both
\* calls succeed, both return the same frame, and neither caller receives
\* the frame before the block has been read into it.
C36_ConcurrentFetchesShareLoadedFrame ==
  \A t, u \in DOMAIN threads :
     (/\ t # u
      /\ threads[t].pc = "done" /\ threads[u].pc = "done"
      /\ threads[t].n = threads[u].n
      /\ threads[t].overlap /\ threads[u].overlap) =>
        /\ threads[t].res = "ok" /\ threads[u].res = "ok"
        /\ threads[t].frame = threads[u].frame
        /\ threads[t].loaded /\ threads[u].loaded

\* C24: under any interleaving of Pin and Unpin calls from several threads
\* on one page, an Unpin at pin count 0 included, the pin counter is never
\* negative, and the page reports IsPinned while a thread holds a pin it has
\* not released.
C24_PinsCountHeldPins ==
  threads # <<>> =>
     /\ pool.pages[1].pins >= 0
     /\ (\E t \in ThreadIds : threads[t].held > 0) => IsPinned(pool.pages[1])

\* The table name and the column names of t are at most n bytes long.
NamesWithin(t, n) ==
  Len(t.Name) <= n /\ \A k \in DOMAIN t.Columns : Len(t.Columns[k].Name) <= n

\* C25: for every table descriptor whose names are at most 60 bytes, with
\* any number of columns and any data pages, ParseBinary of the bytes
\* PutBinary produced yields a descriptor equal to the input and consumes
\* the number of bytes PutBinary reported, which is ByteSize.
C25_DescriptorRoundTrips ==
  (ret.op = "RoundTrip" /\ NamesWithin(arg, 60)) =>
     /\ ret.putOk /\ ret.written = ret.size
     /\ ret.res = "ok" /\ ret.read = ret.written
     /\ ret.parsed = DescriptorOf(arg)

\* C26: PutVarChar either writes the whole varchar, the 4-byte length and
\* all of data, and returns 4 + len(data), or returns an error; it never
\* succeeds having written part of data, whatever the output's length.
C26_PutVarCharWritesAllOrFails ==
  (ret.op = "PutVarChar" /\ ret.ok) =>
     /\ ret.n = VarCharHeaderSize + Len(arg.data)
     /\ Len(ret.output) >= ret.n
     /\ SubSeq(ret.output, 1, ret.n) =
          BigEndian(Len(arg.data), Int32ByteSize) \o arg.data

\* The bytes of a source that follow its length prefix.
Available(source) == Len(source) - VarCharHeaderSize

\* C27: ParseVarChar and GetVarCharSize return an error for a varchar whose
\* length prefix is negative or declares more bytes than the source has;
\* the call does not panic and the output buffer is not written.
C27_BadLengthPrefixRejected ==
  (/\ ret.op \in {"ParseVarChar", "GetVarCharSize"}
   /\ Len(arg.source) >= VarCharHeaderSize
   /\ arg.declared < 0 \/ arg.declared > Available(arg.source)) =>
     /\ ret.res = "err"
     /\ ret.output = Fill(arg.outLen, 255)

\* C28: TIDFromNumber(t.AsNumber()) = t for every TID t, AsNumber is
\* (page_id << 16) | slot_index, the slot in the low 16 bits and the page id
\* in the 32 bits above them, and different TIDs pack to different numbers.
C28_TIDPackingRoundTrips ==
  ret.op = "AsNumber" =>
     /\ ret.back = arg.t
     /\ ret.t = <<arg.t.SlotID[1], arg.t.PageID[1], arg.t.PageID[2], 0>>
     /\ arg.t # arg.u => ret.t # ret.u

\* Two TIDs were packed that differ only in the high half of the page id,
\* the first with every bit of the page id and the slot set.
C28_Witness ==
  /\ ret.op = "AsNumber"
  /\ arg.t = [PageID |-> <<LimbMax, LimbMax>>, SlotID |-> <<LimbMax>>]
  /\ arg.u = [PageID |-> <<LimbMax, 0>>, SlotID |-> <<LimbMax>>]
  /\ ret.back = arg.t

\* The ids of the pages that were dirty when the last Sync started.
DirtyIds(call) == {BEValue(Slice(call.dirty[k], pageIdOffset, pageIdSize)) : k \in DOMAIN call.dirty}

\* C23: after a successful Sync no resident page is dirty, the file block of
\* every page that was dirty when Sync started equals the page's block in
\* memory, and the blocks of the other pages were not written.
C23_SyncWritesDirtyPages ==
  plast.op = "Sync" =>
     /\ \A id \in DOMAIN pool.addresses : ~pool.pages[pool.addresses[id]].isDirty
     /\ \A k \in DOMAIN plast.dirty :
          /\ pool.pages[k].pageBlock = plast.dirty[k]
          /\ Id(pool.pages[k]) < Len(file)
          /\ file[Id(pool.pages[k]) + 1] = plast.dirty[k]
     /\ \A n \in 0..(Len(file) - 1) :
          n \notin DirtyIds(plast) =>
            file[n + 1] = IF n < Len(plast.fileBefore) THEN plast.fileBefore[n + 1]
                          ELSE Zeros(pageSize)

(***************************************************************************)
(* Claims about the pager machine.                                         *)
(***************************************************************************)
\* C7: a frame that is dirty when it is chosen as eviction victim has its
\* whole block written to the file at its old id's offset before it is
\* rebound, so the file holds, for every page evicted dirty and not brought
\* back since, the block the page had then, and a later FetchPage of that id
\* returns a frame with that block; it fails only when every frame is pinned.
C7_DirtyVictimFlushedBeforeRebind ==
  /\ \A id \in DOMAIN evicted : id < Len(file) /\ file[id + 1] = evicted[id]
  /\ (plast.op = "FetchPage" /\ plast.wasEvicted) =>
        IF plast.res = "ok"
          THEN pool.pages[plast.frame].pageBlock = plast.expected
          ELSE \A k \in 1..PoolCapacity : IsPinned(pool.pages[k])

\* A page other than page 0 was evicted with a Row stamp not yet written, and
\* a FetchPage has brought it back.
C7_Witness ==
  /\ plast.op = "FetchPage" /\ plast.wasEvicted /\ plast.res = "ok"
  /\ plast.id # metadataPageId
  /\ PageType(pool.pages[plast.frame]) = PageTypeRow

\* C22: FetchPage(id) returns an error whenever the file has no complete
\* block for id or the block's version byte is not the current version, and
\* the failed call leaves no mapping for id in the pool, so that a repeated
\* FetchPage(id) fails again.
C22_FetchPageFailsWithoutValidBlock ==
  (plast.op = "FetchPage" /\ ~plast.valid) =>
     /\ plast.res = "err"
     /\ plast.id \notin DOMAIN pool.addresses

\* C10: page 0 has type Metadata in every state, and the frame AppendPage
\* returns holds the new page's id when the type is stamped on it.
C10_PageZeroStaysMetadata ==
  /\ ParseInt(CurrentBlock(pool, file, metadataPageId), pageTypeOffset,
              pageTypeSize).v = PageTypeMetadata
  /\ (plast.op = "AppendPage" /\ plast.res = "ok") =>
        /\ Id(pool.pages[plast.frame]) = plast.id
        /\ PageType(pool.pages[plast.frame]) = plast.pageType

\* C9: on a pager opened on a new file, the n-th successful AppendPage
\* returns the page of id n, every successful AppendPage raises the pages
\* count by one, and the pages count is the number of blocks in the file.
C9_AppendPageNumbersPages ==
  /\ CurrentPagesCount(pool, file) = Len(file)
  /\ (plast.op = "AppendPage" /\ plast.res = "ok") =>
        /\ plast.id = plast.blocks
        /\ Id(pool.pages[plast.frame]) = plast.id
        /\ CurrentPagesCount(pool, file) = plast.count + 1
        /\ Len(file) = plast.blocks + 1

\* The last page the bounds allow was appended, by an AppendPage that had to
\* evict a page to find a frame.
C9_Witness ==
  /\ plast.op = "AppendPage" /\ plast.res = "ok"
  /\ plast.id = MaxPageId
  /\ Len(file) = MaxPageId + 1
  /\ Cardinality(DOMAIN pool.addresses) < Len(file)

(***************************************************************************)
(* Claims about the database machine.                                      *)
(***************************************************************************)
\* The number of times x occurs in the sequence s.
Count(s, x) == Cardinality({i \in DOMAIN s : s[i] = x})

\* The rows SelectAll returned are the rows inserted, each as often.
SameRows(views, rows) ==
  /\ Len(views) = Len(rows)
  /\ \A values \in DbRows :
       Cardinality({i \in DOMAIN views : Flatten(views[i]) = Serialize(values)})
         = Count(rows, values)

\* C1: when every Insert was made through a table context freshly obtained
\* from Database.Table, then after Close and reopening the file the table is
\* found and SelectAll returns exactly the rows inserted, each decoding to
\* its inserted values.
C1_InsertedRowsSurviveReopen ==
  (history.clean /\ ~history.stale) =>
     /\ (plast.op = "Table" /\ history.inserted # <<>>) => plast.res = "ok"
     /\ plast.op = "SelectAll" =>
          /\ plast.res = "ok"
          /\ SameRows(plast.rows, history.inserted)

\* The descriptor of the table T in the metadata a reader finds in a block of
\* page 0; no table when it is not listed.
TableIn(block) ==
  LET listed(m, index) == IF index = 0 THEN NoTable ELSE m.tables[index]
      parsed(r) == listed(r.metadata, findTableByName(r.metadata, TableT.Name))
  IN parsed(MetadataOf(block))

\* The row in slot SlotID of page PageID, as a reader finds it, holds values.
RowStored(PageID, SlotID, values) ==
  LET fetched(r) == r.res = "ok" /\ Flatten(r.items) = Serialize(values)
  IN fetched(FetchRow(NewRowPage([NewBufferPage EXCEPT !.pageBlock =
                                    CurrentBlock(pool, file, PageID)], RowSchema),
                      SlotID))

\* The listed pages that take the row and have no page before them that does.
FirstTaking(call) ==
  {i \in DOMAIN call.listed :
     call.takes[i] /\ \A j \in 1..(i - 1) : ~call.takes[j]}

\* C11: an Insert with the right number of values puts the row in the first
\* page of data_pages that can take it and returns that page id and slot,
\* appending nothing; only when no listed page takes the row does it append
\* one Row page, insert there and add the new page id to the table's
\* data_pages in the metadata page; after the first spill data_pages has
\* length 2 and the pages count is 3.
C11_InsertFillsFirstFittingPage ==
  LET now == MetadataOf(CurrentBlock(pool, file, metadataPageId)).metadata
      before == MetadataOf(plast.blockBefore).metadata
      tableNow == TableIn(CurrentBlock(pool, file, metadataPageId))
      tableBefore == TableIn(plast.blockBefore)
  IN (plast.op = "Insert" /\ plast.values \in DbRows) =>
       /\ plast.res = "ok"
       /\ RowStored(plast.PageID, plast.SlotID, plast.values)
       /\ IF FirstTaking(plast) # {}
            THEN /\ \A i \in FirstTaking(plast) : plast.PageID = plast.listed[i]
                 /\ Len(file) = plast.blocks
                 /\ now = before
            ELSE /\ plast.PageID = plast.blocks
                 /\ Len(file) = plast.blocks + 1
                 /\ ParseInt(CurrentBlock(pool, file, plast.PageID), pageTypeOffset,
                             pageTypeSize).v = PageTypeRow
                 /\ now.pagesCount = before.pagesCount + 1
                 /\ tableNow.DataPages = Append(tableBefore.DataPages, plast.PageID)
                 /\ Len(tableBefore.DataPages) = 1 =>
                       (Len(tableNow.DataPages) = 2 /\ now.pagesCount = 3)

\* The elements of a sequence.
Range(seq) == {seq[i] : i \in DOMAIN seq}

\* C34: for any sequence of Insert calls on a table, several Inserts through
\* one TableContext handle included, every page id once listed in the table's
\* data_pages in the metadata page stays listed, so that the page of every
\* row inserted is listed.
C34_DataPagesOnlyGrow ==
  LET tableNow == TableIn(CurrentBlock(pool, file, metadataPageId))
      tableBefore == TableIn(plast.blockBefore)
  IN plast.op = "Insert" =>
       /\ Range(tableBefore.DataPages) \subseteq Range(tableNow.DataPages)
       /\ plast.res = "ok" => plast.PageID \in Range(tableNow.DataPages)

\* C35: when AddTable returns an error for a reason other than a duplicate
\* name (a name longer than 64 bytes, a catalog that does not fit the data
\* area), the bytes of page 0 are unchanged, so the metadata parsed from them
\* has the pages count and the tables it had before the call.
C35_FailedAddTableLeavesPageZero ==
  (plast.op = "AddTable" /\ plast.res = "err" /\ plast.why # "already exists") =>
     /\ CurrentBlock(pool, file, metadataPageId) = plast.blockBefore
     /\ MetadataOf(CurrentBlock(pool, file, metadataPageId)).metadata
          = MetadataOf(plast.blockBefore).metadata

\* C12: AddTable with the name of a table that exists fails with the
\* 'already exists' error, and the table list of the metadata page and the
\* bytes of page 0 are what they were before the call.
C12_DuplicateAddTableRejected ==
  (plast.op = "AddTable"
     /\ findTableByName(MetadataOf(plast.blockBefore).metadata, plast.name) # 0) =>
     /\ plast.res = "err"
     /\ plast.why = "already exists"
     /\ CurrentBlock(pool, file, metadataPageId) = plast.blockBefore
     /\ MetadataOf(CurrentBlock(pool, file, metadataPageId)).metadata.tables
          = MetadataOf(plast.blockBefore).metadata.tables

\* A second AddTable of a table that has a data page was rejected.
C12_Witness ==
  /\ plast.op = "AddTable" /\ plast.res = "err" /\ plast.why = "already exists"
  /\ plast.name = TableT.Name
  /\ TableIn(plast.blockBefore).DataPages # <<>>

\* C13: an Insert of a row longer than what an empty data page holds returns
\* an error and changes nothing: the pages count, the number of blocks in
\* the file, the table's data_pages and the rows of every page are what they
\* were before the call.
C13_OversizedInsertChangesNothing ==
  (plast.op = "Insert" /\ ItemsSize(plast.values) > EmptyPageHolds) =>
     /\ plast.res = "err"
     /\ Len(file) = plast.blocks
     /\ MetadataOf(CurrentBlock(pool, file, metadataPageId)).metadata
          = MetadataOf(plast.blockBefore).metadata
     /\ RowsOfPages(pool, file, 1..(plast.blocks - 1)) = plast.rowsBefore

\* C8: after AddTable calls and inserts, Close and reopening the file yield
\* a metadata page with the pages count and the table descriptors the
\* metadata page had just before Close.
C8_MetadataSurvivesReopen ==
  plast.op = "Reopen" => plast.after = plast.before

====
